---- MODULE Spec2Model ----
(***************************************************************************)
(* A model of the client-side cache (CacheManager, src/ui-ux.js) and of    *)
(* the record store (DataManager, src/unnamed/part_000) of GOnSales.       *)
(*                                                                         *)
(* JavaScript values are modelled as records [t, s, n]: t is the type tag  *)
(* ("string", "number", "date", "null", "undefined"), s the text of a      *)
(* string and n the value of a number or the epoch milliseconds of a Date. *)
(* A JS object is a function from field names to such values, an array of  *)
(* records a sequence. The clock `now` is Date.now(); every handler reads  *)
(* it once.                                                                *)
(***************************************************************************)
EXTENDS Integers, Sequences, FiniteSets, TLC

VARIABLES
    now,          \* Date.now(), in milliseconds
    memoryCache,  \* CacheManager.memoryCache: a Map, kept in insertion order
    stores,       \* DataManager.dataStores: store name -> store.data
    lastOp,       \* the last call made and what it returned or threw
    sessionStorage, \* window.sessionStorage: items in insertion order
    localStorage, \* window.localStorage: items in insertion order
    loginAttempts, \* core.js loginAttempts: a Map from email to { count, lastAttempt }
    failedAt,     \* the instants at which logFailedLoginAttempt was called, per email
    sync,         \* where a call of syncWithFirebase stands: idle, or awaiting getDocs
    timers        \* the setInterval timers that are armed, and whether beforeunload has run

vars == <<now, memoryCache, stores, lastOp, sessionStorage, localStorage,
          loginAttempts, failedAt, sync, timers>>

\* the Web Storage areas, and the state of the login rate limiter
storageVars == <<sessionStorage, localStorage>>
loginVars == <<loginAttempts, failedAt>>
backgroundVars == <<sync, timers>>

----------------------------------------------------------------------------
(* Bounds of the model *)

\* cacheConfig.memory.maxSize, scaled down from the source's 100 entries
MaxSize == 2
\* clock advances a behaviour may make
MaxTicks == 1
\* reads of one entry that are counted (accessCount)
MaxAccess == 1
\* records held by all stores together
MaxRecords == 2
\* cacheConfig.sessionStorage.maxSize and cacheConfig.localStorage.maxSize,
\* scaled down from the source's 25 and 50 entries
SessionMaxSize == 2
LocalMaxSize == 2

(* Program constants *)
MemoryTTL == 300000
LocalStorageTTL == 3600000
SessionStorageTTL == 1800000
FallbackTTL == 300000
DataCacheTTL == 300000
\* setAutoCache: below 1KB to memory, below 10KB to sessionStorage
AutoMemoryLimit == 1024
AutoSessionLimit == 10240

----------------------------------------------------------------------------
(* JavaScript values *)

Str(x) == [t |-> "string", s |-> x, n |-> 0]
Num(x) == [t |-> "number", s |-> "", n |-> x]
DateV(ms) == [t |-> "date", s |-> "", n |-> ms]
Null == [t |-> "null", s |-> "", n |-> 0]
Undef == [t |-> "undefined", s |-> "", n |-> 0]

\* a function, and an object JSON.stringify throws on (a cycle)
Function == [t |-> "function", s |-> "", n |-> 0]
Circular == [t |-> "circular", s |-> "", n |-> 0]

\* 'x'.repeat(count)
Repeat(count) == [t |-> "string", s |-> "x*", n |-> count]

\* Date.prototype.toJSON: the ISO-8601 text of the instant, a string
IsoString(ms) == [t |-> "string", s |-> "ISO8601", n |-> ms]

EmptyObject == [f \in {} |-> Undef]

\* obj[field]: undefined when the object has no such property
Prop(obj, f) == IF f \in DOMAIN obj THEN obj[f] ELSE Undef

\* value === undefined || value === null || value === ''
IsBlank(v) == v.t \in {"undefined", "null"} \/ v = Str("")

\* !value for the values of the model
Falsy(v) ==
    \/ v.t \in {"undefined", "null"}
    \/ v = Str("")
    \/ (v.t = "number" /\ v.n = 0)

\* {...a, ...b}
Spread(a, b) ==
    [f \in (DOMAIN a) \cup (DOMAIN b) |-> IF f \in DOMAIN b THEN b[f] ELSE a[f]]

\* an array as a JS value, and an object as a JS value
Arr(list) == [k |-> "array", list |-> list, rec |-> EmptyObject]
Obj(rec) == [k |-> "object", list |-> <<>>, rec |-> rec]

----------------------------------------------------------------------------
(* JSON.stringify and JSON.parse.  The text JSON.stringify produces is     *)
(* modelled by the value JSON.parse reads back from it: a Date becomes its *)
(* ISO string, a property whose value is undefined is dropped.             *)

JsonValue(v) == IF v.t = "date" THEN IsoString(v.n) ELSE v

JsonRecord(r) ==
    [f \in {g \in DOMAIN r : r[g].t # "undefined"} |-> JsonValue(r[f])]

JsonList(l) == [i \in 1..Len(l) |-> JsonRecord(l[i])]

JsonStringify(value) ==
    [json |-> [k |-> value.k, list |-> JsonList(value.list), rec |-> JsonRecord(value.rec)]]

JsonParse(text) == text.json

\* CacheManager.serialize: JSON.stringify(value), which is undefined for
\* undefined and for a function; String(value) when JSON.stringify throws
Serialize(value) ==
    IF "k" \in DOMAIN value THEN JsonStringify(value)
    ELSE IF value.t \in {"undefined", "function"} THEN Undef
    ELSE IF value.t = "circular" THEN Str("[object Object]")
    ELSE [json |-> JsonValue(value)]

\* CacheManager.deserialize: JSON.parse(value), the value itself when that throws
Deserialize(text) ==
    IF "json" \in DOMAIN text THEN JsonParse(text) ELSE text

\* the length of a string of the model
TextLength(v) ==
    IF v.s = "x*" THEN v.n
    ELSE IF v.s = "ISO8601" THEN 24
    ELSE Len(v.s)

\* the length of the JSON text of a primitive, and the double quotes in it
PrimitiveLength(v) ==
    CASE v.t = "string" -> TextLength(v) + 2
      [] v.t = "number" -> Len(ToString(v.n))
      [] OTHER -> 4

PrimitiveQuotes(v) == IF v.t = "string" THEN 2 ELSE 0

\* "name":value for every property of an object, summed
RECURSIVE PropertiesLength(_, _)
PropertiesLength(rec, fields) ==
    IF fields = {} THEN 0
    ELSE LET f == CHOOSE g \in fields : TRUE IN
         Len(f) + 3 + PrimitiveLength(rec[f]) + PropertiesLength(rec, fields \ {f})

RECURSIVE PropertiesQuotes(_, _)
PropertiesQuotes(rec, fields) ==
    IF fields = {} THEN 0
    ELSE LET f == CHOOSE g \in fields : TRUE IN
         2 + PrimitiveQuotes(rec[f]) + PropertiesQuotes(rec, fields \ {f})

Commas(count) == IF count = 0 THEN 0 ELSE count - 1

ObjectLength(rec) ==
    2 + PropertiesLength(rec, DOMAIN rec) + Commas(Cardinality(DOMAIN rec))

RECURSIVE ElementsLength(_, _)
ElementsLength(list, i) ==
    IF i > Len(list) THEN 0 ELSE ObjectLength(list[i]) + ElementsLength(list, i + 1)

RECURSIVE ElementsQuotes(_, _)
ElementsQuotes(list, i) ==
    IF i > Len(list) THEN 0
    ELSE PropertiesQuotes(list[i], DOMAIN list[i]) + ElementsQuotes(list, i + 1)

\* text.length for the text JSON.stringify produced
JsonLength(text) ==
    LET json == text.json IN
    IF "k" \notin DOMAIN json THEN PrimitiveLength(json)
    ELSE IF json.k = "array"
    THEN 2 + ElementsLength(json.list, 1) + Commas(Len(json.list))
    ELSE ObjectLength(json.rec)

\* the double quotes in that text: JSON.stringify escapes each with a backslash
JsonQuotes(text) ==
    LET json == text.json IN
    IF "k" \notin DOMAIN json THEN PrimitiveQuotes(json)
    ELSE IF json.k = "array" THEN ElementsQuotes(json.list, 1)
    ELSE PropertiesQuotes(json.rec, DOMAIN json.rec)

\* the serialized length of a value: serialize(value).length
SerializedLength(serialized) ==
    IF "json" \in DOMAIN serialized THEN JsonLength(serialized)
    ELSE TextLength(serialized)

----------------------------------------------------------------------------
(* CacheManager: the memory tier *)

NoKey == [some |-> FALSE, key |-> ""]
SomeKey(k) == [some |-> TRUE, key |-> k]

NoEntry == [found |-> FALSE]

\* CacheManager.getDefaultTTL
GetDefaultTTL(strategy) ==
    CASE strategy = "memory" -> MemoryTTL
      [] strategy = "localStorage" -> LocalStorageTTL
      [] strategy = "sessionStorage" -> SessionStorageTTL
      [] OTHER -> FallbackTTL

\* the cacheEntry built by CacheManager.set; a ttl of 0 (none given) takes the default
NewEntry(value, ttl, strategy, t) ==
    [ value |-> Serialize(value),
      timestamp |-> t,
      ttl |-> IF ttl = 0 THEN GetDefaultTTL(strategy) ELSE ttl,
      priority |-> "normal",
      accessCount |-> 0,
      lastAccess |-> t ]

\* a variant in which an entry is still valid at the instant its ttl has elapsed
IsValidAtExpiry(entry, t) == t - entry.timestamp <= entry.ttl

\* CacheManager.isValid
IsValid(entry, t) == t - entry.timestamp < entry.ttl

\* index of key in the Map, 0 when absent
RECURSIVE IndexOfKey(_, _, _)
IndexOfKey(cache, key, i) ==
    IF i > Len(cache) THEN 0
    ELSE IF cache[i].key = key THEN i
    ELSE IndexOfKey(cache, key, i + 1)

HasKey(cache, key) == IndexOfKey(cache, key, 1) # 0

\* Map.prototype.set: an existing key keeps its place, a new key goes last
MapSet(cache, key, entry) ==
    LET i == IndexOfKey(cache, key, 1) IN
    IF i = 0 THEN Append(cache, [key |-> key, entry |-> entry])
    ELSE [cache EXCEPT ![i] = [key |-> key, entry |-> entry]]

\* Map.prototype.delete
MapDelete(cache, key) ==
    SelectSeq(cache, LAMBDA e : e.key # key)

\* the loop of evictMemoryCache: the first entry whose lastAccess is below
\* every lastAccess seen so far, starting from oldestTime = Date.now()
RECURSIVE EvictScan(_, _, _, _)
EvictScan(cache, i, oldestKey, oldestTime) ==
    IF i > Len(cache) THEN oldestKey
    ELSE IF cache[i].entry.lastAccess < oldestTime
         THEN EvictScan(cache, i + 1, SomeKey(cache[i].key), cache[i].entry.lastAccess)
         ELSE EvictScan(cache, i + 1, oldestKey, oldestTime)

\* CacheManager.evictMemoryCache
EvictMemoryCache(cache, t) ==
    LET oldestKey == EvictScan(cache, 1, NoKey, t) IN
    IF oldestKey.some /\ oldestKey.key # ""
    THEN MapDelete(cache, oldestKey.key)
    ELSE cache

\* CacheManager.setMemoryCache
SetMemoryCache(cache, key, entry, t) ==
    MapSet(IF Len(cache) >= MaxSize THEN EvictMemoryCache(cache, t) ELSE cache,
           key, entry)

\* CacheManager.getMemoryCache
GetMemoryCache(cache, key) ==
    LET i == IndexOfKey(cache, key, 1) IN
    IF i = 0 THEN NoEntry ELSE [found |-> TRUE, entry |-> cache[i].entry]

\* what CacheManager.get(key, 'memory') returns at time t
GetMemoryResult(cache, key, t) ==
    LET got == GetMemoryCache(cache, key) IN
    IF got.found /\ IsValid(got.entry, t)
    THEN [hit |-> TRUE, value |-> Deserialize(got.entry.value)]
    ELSE [hit |-> FALSE]

\* the Map after CacheManager.get(key, 'memory'): a valid hit is touched
TouchMemoryCache(cache, key, t) ==
    LET i == IndexOfKey(cache, key, 1) IN
    IF i # 0 /\ IsValid(cache[i].entry, t)
    THEN [cache EXCEPT ![i].entry.accessCount = @ + 1, ![i].entry.lastAccess = t]
    ELSE cache

\* the memory part of CacheManager.cleanup
CleanupMemory(cache, t) == SelectSeq(cache, LAMBDA e : IsValid(e.entry, t))

----------------------------------------------------------------------------
(* Web Storage (localStorage, sessionStorage): items in insertion order *)

RECURSIVE StorageIndex(_, _, _)
StorageIndex(storage, key, i) ==
    IF i > Len(storage) THEN 0
    ELSE IF storage[i].key = key THEN i
    ELSE StorageIndex(storage, key, i + 1)

\* Storage.getItem
GetItem(storage, key) ==
    LET i == StorageIndex(storage, key, 1) IN
    IF i = 0 THEN [found |-> FALSE] ELSE [found |-> TRUE, item |-> storage[i].item]

\* Storage.setItem when the quota allows it
SetItem(storage, key, item) ==
    LET i == StorageIndex(storage, key, 1) IN
    IF i = 0 THEN Append(storage, [key |-> key, item |-> item])
    ELSE [storage EXCEPT ![i] = [key |-> key, item |-> item]]

\* Storage.removeItem
RemoveItem(storage, key) == SelectSeq(storage, LAMBDA e : e.key # key)

\* JSON.parse(item) succeeds on the texts JSON.stringify wrote
Parsable(item) == "json" \in DOMAIN item

----------------------------------------------------------------------------
(* CacheManager: the sessionStorage and localStorage tiers, and auto *)

\* `cache_${key}`
CacheItemKey(key) == "cache_" \o key

\* key.startsWith('cache_')
IsCacheItemKey(key) == Len(key) >= 6 /\ SubSeq(key, 1, 6) = "cache_"

\* getLocalStorageKeys / getSessionStorageKeys, with the items they name
CacheItems(storage) == SelectSeq(storage, LAMBDA e : IsCacheItemKey(e.key))

\* JSON.stringify(entry): every field of an entry is a number or a string;
\* a value that is undefined is dropped and reads back as undefined
StringifyEntry(entry) == [json |-> entry]

\* getLocalStorageCache / getSessionStorageCache
GetStorageCache(storage, key) ==
    LET got == GetItem(storage, CacheItemKey(key)) IN
    IF got.found /\ Parsable(got.item)
    THEN [found |-> TRUE, entry |-> got.item.json]
    ELSE NoEntry

\* Array.prototype.sort((a, b) => a.entry.lastAccess - b.entry.lastAccess), stable
InsertOldestFirst(sorted, e) ==
    LET before == SelectSeq(sorted, LAMBDA x : x.item.json.lastAccess <= e.item.json.lastAccess)
        after == SelectSeq(sorted, LAMBDA x : x.item.json.lastAccess > e.item.json.lastAccess)
    IN  before \o <<e>> \o after

RECURSIVE OldestFirst(_, _)
OldestFirst(items, n) ==
    IF n = 0 THEN <<>> ELSE InsertOldestFirst(OldestFirst(items, n - 1), items[n])

\* the loop that removes the first toRemove entries
RECURSIVE RemoveFirst(_, _, _, _)
RemoveFirst(storage, entries, i, toRemove) ==
    IF i > toRemove THEN storage
    ELSE RemoveFirst(RemoveItem(storage, entries[i].key), entries, i + 1, toRemove)

\* evictLocalStorageCache / evictSessionStorageCache: the oldest 25%, rounded
\* up; nothing when an item cannot be parsed
EvictStorageCache(storage) ==
    LET items == CacheItems(storage) IN
    IF \E i \in 1..Len(items) : ~Parsable(items[i].item) THEN storage
    ELSE RemoveFirst(storage, OldestFirst(items, Len(items)), 1, (Len(items) + 3) \div 4)

\* setLocalStorageCache / setSessionStorageCache; quotaOk is whether setItem
\* is let through, a QuotaExceededError being caught otherwise
SetStorageCache(storage, maxSize, key, entry, quotaOk) ==
    LET evicted == IF Len(CacheItems(storage)) >= maxSize
                   THEN EvictStorageCache(storage)
                   ELSE storage
    IN  IF quotaOk THEN SetItem(evicted, CacheItemKey(key), StringifyEntry(entry))
        ELSE evicted

\* JSON.stringify(entry.value).length in setAutoCache: entry.value is a text
\* already, so it is quoted and its double quotes are escaped; undefined has
\* no length and reading it throws a TypeError
DataSize(value) ==
    IF value = Undef THEN [threw |-> TRUE, size |-> 0]
    ELSE IF "json" \in DOMAIN value
    THEN [threw |-> FALSE, size |-> JsonLength(value) + JsonQuotes(value) + 2]
    ELSE [threw |-> FALSE, size |-> TextLength(value) + 2]

\* the three tiers of a CacheManager
Tiers(memory, session, local) == [memory |-> memory, session |-> session, local |-> local]

SetInTier(tiers, tier, key, entry, quotaOk, t) ==
    CASE tier = "memory" ->
           [tiers EXCEPT !.memory = SetMemoryCache(tiers.memory, key, entry, t)]
      [] tier = "sessionStorage" ->
           [tiers EXCEPT !.session =
                SetStorageCache(tiers.session, SessionMaxSize, key, entry, quotaOk)]
      [] tier = "localStorage" ->
           [tiers EXCEPT !.local =
                SetStorageCache(tiers.local, LocalMaxSize, key, entry, quotaOk)]
      [] OTHER -> tiers

\* the tier setAutoCache chooses for a size
AutoTier(dataSize) ==
    IF dataSize < AutoMemoryLimit THEN "memory"
    ELSE IF dataSize < AutoSessionLimit THEN "sessionStorage"
    ELSE "localStorage"

\* CacheManager.setAutoCache
SetAutoCache(tiers, key, entry, quotaOk, t) ==
    LET dataSize == DataSize(entry.value) IN
    IF dataSize.threw THEN [threw |-> TRUE, tiers |-> tiers]
    ELSE [threw |-> FALSE,
          tiers |-> SetInTier(tiers, AutoTier(dataSize.size), key, entry, quotaOk, t)]

\* CacheManager.set(key, value, { strategy, ttl })
CacheSet(tiers, key, value, strategy, ttl, quotaOk, t) ==
    LET cacheEntry == NewEntry(value, ttl, strategy, t) IN
    IF strategy = "auto" THEN SetAutoCache(tiers, key, cacheEntry, quotaOk, t)
    ELSE [threw |-> FALSE, tiers |-> SetInTier(tiers, strategy, key, cacheEntry, quotaOk, t)]

\* the entry CacheManager.get looks at: for auto the first tier, in the order
\* memory, sessionStorage, localStorage, that has an entry for the key
LookedUp(tiers, key, strategy) ==
    LET inMemory == GetMemoryCache(tiers.memory, key)
        inSession == GetStorageCache(tiers.session, key)
        inLocal == GetStorageCache(tiers.local, key)
    IN  CASE strategy = "auto" ->
               IF inMemory.found THEN inMemory
               ELSE IF inSession.found THEN inSession
               ELSE inLocal
          [] strategy = "memory" -> inMemory
          [] strategy = "sessionStorage" -> inSession
          [] strategy = "localStorage" -> inLocal
          [] OTHER -> NoEntry

\* what CacheManager.get(key, strategy) returns at time t
CacheGet(tiers, key, strategy, t) ==
    LET cacheEntry == LookedUp(tiers, key, strategy) IN
    IF cacheEntry.found /\ IsValid(cacheEntry.entry, t)
    THEN [hit |-> TRUE, value |-> Deserialize(cacheEntry.entry.value)]
    ELSE [hit |-> FALSE]

\* the tiers after CacheManager.get: accessCount and lastAccess are written
\* to the object looked at, which is the Map's own entry in the memory tier
\* and a parsed copy in the storage tiers
CacheGetTouch(tiers, key, strategy, t) ==
    IF strategy \in {"auto", "memory"}
    THEN [tiers EXCEPT !.memory = TouchMemoryCache(tiers.memory, key, t)]
    ELSE tiers

\* the storage part of CacheManager.cleanup: the items are visited in order
\* and the sweep of a storage stops at an item JSON.parse throws on
RECURSIVE CleanupStorage(_, _, _, _)
CleanupStorage(storage, items, i, t) ==
    IF i > Len(items) THEN storage
    ELSE IF ~Parsable(items[i].item) THEN storage
    ELSE CleanupStorage(IF IsValid(items[i].item.json, t) THEN storage
                        ELSE RemoveItem(storage, items[i].key),
                        items, i + 1, t)

----------------------------------------------------------------------------
(* JavaScript operators on the values of the model *)

\* the strings of the model in the order of their UTF-16 code units
StringOrder ==
    << "", "-5", "ISO8601", "7", "A", "Al", "Ann", "Bob", "DSR001", "DSR1",
       "Gold", "John", "North", "Silver", "Up", "a", "b", "g1", "g2", "zz" >>

RECURSIVE StringRank(_, _)
StringRank(x, i) ==
    IF i > Len(StringOrder) THEN 0
    ELSE IF StringOrder[i] = x THEN i
    ELSE StringRank(x, i + 1)

\* x < y for two strings
StringLess(x, y) ==
    \/ StringRank(x.s, 1) < StringRank(y.s, 1)
    \/ (x.s = y.s /\ x.n < y.n)

\* value.length of a string; other values of the model have no length
StringLength(v) == TextLength(v)

NaN == [nan |-> TRUE, n |-> 0]
Finite(n) == [nan |-> FALSE, n |-> n]

\* ToNumber: what a relational or arithmetic operator makes of an operand
ToNumber(v) ==
    CASE v.t = "number" -> Finite(v.n)
      [] v.t = "date" -> Finite(v.n)
      [] v.t = "null" -> Finite(0)
      [] v.t = "undefined" -> NaN
      [] v.t = "string" ->
            CASE v = Str("") -> Finite(0)
              [] v = Str("-5") -> Finite(-5)
              [] v = Str("7") -> Finite(7)
              [] OTHER -> NaN

\* a < b
JsLess(a, b) ==
    IF a.t = "string" /\ b.t = "string" THEN StringLess(a, b)
    ELSE LET x == ToNumber(a)
             y == ToNumber(b)
         IN  ~x.nan /\ ~y.nan /\ x.n < y.n

\* a < n and a > n for a number literal n
LessThanNumber(a, n) == LET x == ToNumber(a) IN ~x.nan /\ x.n < n
GreaterThanNumber(a, n) == LET x == ToNumber(a) IN ~x.nan /\ x.n > n

\* the strings of the model each pattern of the schemas matches
PatternMatches(pattern) ==
    CASE pattern = "^DSR\\d{3}$" -> {"DSR001"}
      [] pattern = "^DE\\d{3}$" -> {}
      [] pattern = "^\\d{1,2}-[A-Za-z]{3}$" -> {}
      [] OTHER -> {}

\* pattern.test(value): the value is converted to a string first, and no
\* number or date of the model prints as a string a schema pattern matches
PatternTest(pattern, v) == v.t = "string" /\ v.s \in PatternMatches(pattern)

RECURSIVE Join(_, _)
Join(list, sep) ==
    IF Len(list) = 0 THEN ""
    ELSE IF Len(list) = 1 THEN list[1]
    ELSE list[1] \o sep \o Join(Tail(list), sep)

\* enum.includes(value)
Includes(enum, v) ==
    v.t = "string" /\ \E i \in 1..Len(enum) : enum[i] = v.s

\* a / b on numbers: a quotient num/den with den > 0, or an infinity, or NaN
Divide(a, b) ==
    IF a.nan \/ b.nan THEN [kind |-> "nan", num |-> 0, den |-> 1]
    ELSE IF b.n = 0
         THEN IF a.n > 0 THEN [kind |-> "+inf", num |-> 0, den |-> 1]
              ELSE IF a.n < 0 THEN [kind |-> "-inf", num |-> 0, den |-> 1]
              ELSE [kind |-> "nan", num |-> 0, den |-> 1]
         ELSE IF b.n > 0 THEN [kind |-> "finite", num |-> a.n, den |-> b.n]
              ELSE [kind |-> "finite", num |-> 0 - a.n, den |-> 0 - b.n]

\* a - b
Subtract(a, b) == IF a.nan \/ b.nan THEN NaN ELSE Finite(a.n - b.n)

\* q > 0.5
ExceedsHalf(q) ==
    \/ q.kind = "+inf"
    \/ (q.kind = "finite" /\ 2 * q.num > q.den)

----------------------------------------------------------------------------
(* DataManager: the stores and their schemas *)

StoreNames == {"sales", "dsr", "de", "salesLog"}

Rule(field, type) ==
    [ field |-> field, type |-> type, required |-> TRUE,
      minLength |-> 0, maxLength |-> 0,
      hasMin |-> FALSE, min |-> 0, hasMax |-> FALSE, max |-> 0,
      pattern |-> "", enum |-> <<>> ]

NameRule(field) == [Rule(field, "string") EXCEPT !.minLength = 2, !.maxLength = 50]
AmountRule(field) ==
    [Rule(field, "number") EXCEPT !.hasMin = TRUE, !.min = 0, !.hasMax = TRUE, !.max = 999999]
PatternRule(field, pattern) == [Rule(field, "string") EXCEPT !.pattern = pattern]
EnumRule(field, enum) == [Rule(field, "string") EXCEPT !.enum = enum]

Regions == <<"North", "South", "East", "West">>
Slabs == <<"Gold", "Silver", "Bronze">>

\* DataManager.setupDataStores: the schema of each store, in declaration order
Schema(storeName) ==
    CASE storeName = "sales" ->
            << Rule("id", "string"), NameRule("name"), AmountRule("monthlyTarget"),
               AmountRule("mtdTarget"), AmountRule("mtdActual"),
               Rule("createdAt", "date"), Rule("updatedAt", "date") >>
      [] storeName = "dsr" ->
            << Rule("id", "string"), NameRule("name"),
               PatternRule("dsrId", "^DSR\\d{3}$"), EnumRule("cluster", Regions),
               NameRule("captainName"), AmountRule("lastMonthActual"),
               AmountRule("thisMonthActual"), EnumRule("slab", Slabs),
               Rule("createdAt", "date"), Rule("updatedAt", "date") >>
      [] storeName = "de" ->
            << Rule("id", "string"), NameRule("name"),
               PatternRule("deId", "^DE\\d{3}$"), EnumRule("region", Regions),
               NameRule("captainName"), AmountRule("lastMonthActual"),
               AmountRule("thisMonthActual"), EnumRule("slab", Slabs),
               Rule("createdAt", "date"), Rule("updatedAt", "date") >>
      [] storeName = "salesLog" ->
            << Rule("id", "string"), PatternRule("date", "^\\d{1,2}-[A-Za-z]{3}$"),
               AmountRule("captainA"), AmountRule("captainB"), AmountRule("captainC"),
               AmountRule("captainD"), AmountRule("total"),
               Rule("createdAt", "date"), Rule("updatedAt", "date") >>

\* the business rules of DataManager.setupValidationRules: each returns the
\* messages it adds (none when the rule passes)
SalesMonthlyTargetRule(value, record) ==
    IF JsLess(value, Prop(record, "mtdTarget"))
    THEN <<"Monthly target must be greater than or equal to MTD target">>
    ELSE <<>>

SalesMtdActualRule(value, record) ==
    IF JsLess(Prop(record, "monthlyTarget"), value)
    THEN <<"MTD actual cannot exceed monthly target">>
    ELSE <<>>

DsrThisMonthActualRule(value, record) ==
    LET last == ToNumber(Prop(record, "lastMonthActual"))
        growthRate == Divide(Subtract(ToNumber(value), last), last)
    IN  IF ExceedsHalf(growthRate)
        THEN <<"Growth rate cannot exceed 50%">>
        ELSE <<>>

\* the rules registered for a store, in declaration order
BusinessRules(storeName) ==
    CASE storeName = "sales" -> <<"monthlyTarget", "mtdActual">>
      [] storeName = "dsr" -> <<"thisMonthActual">>
      [] OTHER -> <<>>

ApplyRule(storeName, field, value, record) ==
    CASE storeName = "sales" /\ field = "monthlyTarget" -> SalesMonthlyTargetRule(value, record)
      [] storeName = "sales" /\ field = "mtdActual" -> SalesMtdActualRule(value, record)
      [] storeName = "dsr" /\ field = "thisMonthActual" -> DsrThisMonthActualRule(value, record)
      [] OTHER -> <<>>

----------------------------------------------------------------------------
(* DataManager.validateData *)

TypeError(rules, v) ==
    IF rules.type = "string" /\ v.t # "string" THEN <<rules.field \o " must be a string">>
    ELSE IF rules.type = "number" /\ v.t # "number" THEN <<rules.field \o " must be a number">>
    ELSE IF rules.type = "date" /\ v.t # "date" THEN <<rules.field \o " must be a date">>
    ELSE <<>>

LengthErrors(rules, v) ==
    (IF rules.minLength # 0 /\ v.t = "string" /\ StringLength(v) < rules.minLength
     THEN <<rules.field \o " must be at least " \o ToString(rules.minLength) \o " characters">>
     ELSE <<>>)
    \o
    (IF rules.maxLength # 0 /\ v.t = "string" /\ StringLength(v) > rules.maxLength
     THEN <<rules.field \o " must be at most " \o ToString(rules.maxLength) \o " characters">>
     ELSE <<>>)

RangeErrors(rules, v) ==
    (IF rules.hasMin /\ LessThanNumber(v, rules.min)
     THEN <<rules.field \o " must be at least " \o ToString(rules.min)>>
     ELSE <<>>)
    \o
    (IF rules.hasMax /\ GreaterThanNumber(v, rules.max)
     THEN <<rules.field \o " must be at most " \o ToString(rules.max)>>
     ELSE <<>>)

PatternError(rules, v) ==
    IF rules.pattern # "" /\ ~PatternTest(rules.pattern, v)
    THEN <<rules.field \o " format is invalid">>
    ELSE <<>>

EnumError(rules, v) ==
    IF Len(rules.enum) # 0 /\ ~Includes(rules.enum, v)
    THEN <<rules.field \o " must be one of: " \o Join(rules.enum, ", ")>>
    ELSE <<>>

\* one pass of the loop over the schema: the errors of one field
FieldErrors(rules, data) ==
    LET v == Prop(data, rules.field) IN
    IF rules.required /\ IsBlank(v) THEN <<rules.field \o " is required">>
    ELSE IF v.t \notin {"undefined", "null"}
         THEN TypeError(rules, v) \o LengthErrors(rules, v) \o RangeErrors(rules, v)
              \o PatternError(rules, v) \o EnumError(rules, v)
         ELSE <<>>

RECURSIVE SchemaErrors(_, _, _)
SchemaErrors(schema, data, i) ==
    IF i > Len(schema) THEN <<>>
    ELSE FieldErrors(schema[i], data) \o SchemaErrors(schema, data, i + 1)

RECURSIVE BusinessErrors(_, _, _, _)
BusinessErrors(storeName, fields, data, i) ==
    IF i > Len(fields) THEN <<>>
    ELSE (IF Prop(data, fields[i]).t # "undefined"
          THEN ApplyRule(storeName, fields[i], Prop(data, fields[i]), data)
          ELSE <<>>)
         \o BusinessErrors(storeName, fields, data, i + 1)

ValidateData(storeName, data) ==
    IF storeName \notin StoreNames
    THEN [valid |-> FALSE, errors |-> <<"Store not found">>]
    ELSE LET errors == SchemaErrors(Schema(storeName), data, 1)
                       \o BusinessErrors(storeName, BusinessRules(storeName), data, 1)
         IN  [valid |-> Len(errors) = 0, errors |-> errors]

----------------------------------------------------------------------------
(* DataManager: addData, updateData, deleteData, queryData, importData.    *)
(* Each is a function of the manager's state st = [stores, cache] and      *)
(* returns the outcome of the call: what it returned or threw, and the     *)
(* state it left.                                                          *)

Returned(st, value) ==
    [ok |-> TRUE, message |-> "", errors |-> <<>>, value |-> value, st |-> st]

Threw(st, message, errors) ==
    [ok |-> FALSE, message |-> message, errors |-> errors, value |-> EmptyObject, st |-> st]

\* store.data.findIndex(item => item.id === id), 0 when there is none
RECURSIVE FindIndexById(_, _, _)
FindIndexById(data, id, i) ==
    IF i > Len(data) THEN 0
    ELSE IF Prop(data[i], "id") = id THEN i
    ELSE FindIndexById(data, id, i + 1)

\* Array.prototype.splice(index, 1) leaves the array without that element
RemoveAt(data, index) ==
    [i \in 1..(Len(data) - 1) |-> IF i < index THEN data[i] ELSE data[i + 1]]

\* window.cacheManager.set(`${storeName}-data`, store.data, { strategy: 'memory', ttl: 5 * 60 * 1000 })
CacheStoreData(cache, storeName, data, t) ==
    SetMemoryCache(cache, storeName \o "-data",
                   NewEntry(Arr(data), DataCacheTTL, "memory", t), t)

\* a variant that replaces the records and leaves the cache as it was
CommittedWithoutCaching(st, storeName, data, t) ==
    [ stores |-> [st.stores EXCEPT ![storeName] = data],
      cache |-> st.cache ]

\* the state after store.data was replaced by data and cached
Committed(st, storeName, data, t) ==
    [ stores |-> [st.stores EXCEPT ![storeName] = data],
      cache |-> CacheStoreData(st.cache, storeName, data, t) ]

\* a variant in which the caller's own id, createdAt and updatedAt win
EnrichKeepingCallerFields(data, generatedId, t) ==
    Spread([ id |-> Str(generatedId), createdAt |-> DateV(t), updatedAt |-> DateV(t) ],
           data)

\* the record addData builds: {...data, id: data.id || generateId(), createdAt, updatedAt}
Enrich(data, generatedId, t) ==
    Spread(data,
           [ id |-> IF Falsy(Prop(data, "id")) THEN Str(generatedId) ELSE data["id"],
             createdAt |-> DateV(t),
             updatedAt |-> DateV(t) ])

\* a variant that pushes and caches the record before it checks anything
AddDataCommitFirst(st, storeName, data, generatedId, t) ==
    IF storeName \notin StoreNames
    THEN Threw(st, "Store " \o storeName \o " not found", <<>>)
    ELSE LET enrichedData == Enrich(data, generatedId, t)
             validation == ValidateData(storeName, enrichedData)
             pushed == Committed(st, storeName,
                                 Append(st.stores[storeName], enrichedData), t)
         IN  IF ~validation.valid
             THEN Threw(pushed, "Validation failed: " \o Join(validation.errors, ", "),
                        validation.errors)
             ELSE IF FindIndexById(st.stores[storeName], enrichedData["id"], 1) # 0
             THEN Threw(pushed, "Record with id " \o enrichedData["id"].s \o " already exists",
                        <<>>)
             ELSE Returned(pushed, enrichedData)

\* DataManager.addData; generatedId is what generateId() returns when it is called
AddData(st, storeName, data, generatedId, t) ==
    IF storeName \notin StoreNames
    THEN Threw(st, "Store " \o storeName \o " not found", <<>>)
    ELSE LET enrichedData == Enrich(data, generatedId, t)
             validation == ValidateData(storeName, enrichedData)
         IN  IF ~validation.valid
             THEN Threw(st, "Validation failed: " \o Join(validation.errors, ", "),
                        validation.errors)
             ELSE IF FindIndexById(st.stores[storeName], enrichedData["id"], 1) # 0
             THEN Threw(st, "Record with id " \o enrichedData["id"].s \o " already exists", <<>>)
             ELSE Returned(Committed(st, storeName,
                                     Append(st.stores[storeName], enrichedData), t),
                           enrichedData)

\* a variant in which the patch is spread last, over the new updatedAt
MergePatchLast(old, updates, t) == Spread(Spread(old, [updatedAt |-> DateV(t)]), updates)

\* a variant that validates the stored record, before the patch is merged
UpdateValidatedBeforeMerge(old, updates, t) == old

\* the record updateData builds: {...store.data[index], ...updates, updatedAt: new Date()}
Merge(old, updates, t) == Spread(Spread(old, updates), [updatedAt |-> DateV(t)])

\* what updateData hands to validateData
UpdateValidated(old, updates, t) == Merge(old, updates, t)

\* DataManager.updateData
UpdateData(st, storeName, id, updates, t) ==
    IF storeName \notin StoreNames
    THEN Threw(st, "Store " \o storeName \o " not found", <<>>)
    ELSE LET index == FindIndexById(st.stores[storeName], id, 1) IN
         IF index = 0
         THEN Threw(st, "Record with id " \o id.s \o " not found", <<>>)
         ELSE LET updatedData == Merge(st.stores[storeName][index], updates, t)
                  validation ==
                      ValidateData(storeName,
                                   UpdateValidated(st.stores[storeName][index], updates, t))
              IN  IF ~validation.valid
                  THEN Threw(st, "Validation failed: " \o Join(validation.errors, ", "),
                             validation.errors)
                  ELSE Returned(Committed(st, storeName,
                                          [st.stores[storeName] EXCEPT ![index] = updatedData],
                                          t),
                                updatedData)

\* DataManager.deleteData
DeleteData(st, storeName, id, t) ==
    IF storeName \notin StoreNames
    THEN Threw(st, "Store " \o storeName \o " not found", <<>>)
    ELSE LET index == FindIndexById(st.stores[storeName], id, 1) IN
         IF index = 0
         THEN Threw(st, "Record with id " \o id.s \o " not found", <<>>)
         ELSE Returned(Committed(st, storeName, RemoveAt(st.stores[storeName], index), t),
                       st.stores[storeName][index])

\* DataManager.importData: addData on each item in turn, errors collected;
\* generatedIds[i] is what generateId() returns for item i
RECURSIVE ImportData(_, _, _, _, _, _)
ImportData(st, storeName, items, generatedIds, t, i) ==
    IF i > Len(items) THEN [st |-> st, success |-> <<>>, errors |-> <<>>]
    ELSE LET one == AddData(st, storeName, items[i], generatedIds[i], t)
             rest == ImportData(one.st, storeName, items, generatedIds, t, i + 1)
         IN  [ st |-> rest.st,
               success |-> (IF one.ok THEN <<one.value>> ELSE <<>>) \o rest.success,
               errors |-> (IF one.ok THEN <<>> ELSE <<one.message>>) \o rest.errors ]

\* the comparator queryData hands to sort: the sort keys in declaration
\* order, the first comparison that is not 0 decides, 'desc' negates it
RECURSIVE CompareBy(_, _, _, _)
CompareBy(a, b, sort, k) ==
    IF k > Len(sort) THEN 0
    ELSE LET aVal == Prop(a, sort[k].field)
             bVal == Prop(b, sort[k].field)
             comparison == IF JsLess(aVal, bVal) THEN -1
                           ELSE IF JsLess(bVal, aVal) THEN 1 ELSE 0
         IN  IF comparison # 0
             THEN (IF sort[k].direction = "desc" THEN 0 - comparison ELSE comparison)
             ELSE CompareBy(a, b, sort, k + 1)

\* Array.prototype.sort is stable: x goes behind the last element that is
\* not greater than it
RECURSIVE InsertSorted(_, _, _)
InsertSorted(sorted, x, sort) ==
    IF Len(sorted) = 0 THEN <<x>>
    ELSE IF CompareBy(sorted[Len(sorted)], x, sort, 1) > 0
         THEN Append(InsertSorted(SubSeq(sorted, 1, Len(sorted) - 1), x, sort),
                     sorted[Len(sorted)])
         ELSE Append(sorted, x)

RECURSIVE SortBy(_, _, _)
SortBy(list, sort, n) ==
    IF n = 0 THEN <<>>
    ELSE InsertSorted(SortBy(list, sort, n - 1), list[n], sort)

\* results.slice(offset, offset + limit) for offset, limit >= 0
Slice(list, offset, limit) ==
    LET from == IF offset > Len(list) THEN Len(list) ELSE offset
        to == IF offset + limit > Len(list) THEN Len(list) ELSE offset + limit
    IN  SubSeq(list, from + 1, to)

\* DataManager.queryData on store.data; options is
\* [hasFilter, filterId, sort, limit, offset], a filter being r => r.id === filterId,
\* sort the sequence of [field, direction] (empty: none given), and a limit
\* or offset of 0 standing for one that is 0 or not given (both are falsy)
QueryData(data, options) ==
    LET filtered == IF options.hasFilter
                    THEN SelectSeq(data, LAMBDA r : Prop(r, "id") = options.filterId)
                    ELSE data
        sorted == IF Len(options.sort) # 0
                  THEN SortBy(filtered, options.sort, Len(filtered))
                  ELSE filtered
    IN  IF options.limit # 0 \/ options.offset # 0
        THEN Slice(sorted, options.offset,
                   IF options.limit # 0 THEN options.limit ELSE Len(sorted))
        ELSE sorted

\* queryData(storeName, { filter: r => r.id === id })
QueryById(data, id) ==
    QueryData(data, [hasFilter |-> TRUE, filterId |-> id, sort |-> <<>>,
                     limit |-> 0, offset |-> 0])

----------------------------------------------------------------------------
(* The cache driven directly: set, get and cleanup on the memory tier *)

KeyNames == <<"k1", "k2", "k3", "k4", "k5", "k6">>
Keys == {KeyNames[i] : i \in 1..(MaxSize + 1)}

\* the values the callers cache: { data: i }
CacheValues == {Obj([data |-> Num(1)])}

\* the ttl option of set: 0 stands for "not given"
TtlOptions == {0, 1}

\* the clock moves by a millisecond or by the memory tier's default TTL
TickSteps == {1, MemoryTTL}
TicksTaken(t) == (t \div MemoryTTL) + (t % MemoryTTL)

\* no syncWithFirebase is under way
Idle == [pc |-> "idle", i |-> 0, issued |-> <<>>]

\* the intervals the constructors arm: cleanupInterval and autoSaveInterval
Armed == [cleanupInterval |-> TRUE, autoSaveInterval |-> TRUE, unloading |-> FALSE]

\* the addresses typed into the login form
Emails == {"a@x.io", "b@x.io"}

Init ==
    /\ now = 0
    /\ memoryCache = <<>>
    /\ stores = [s \in StoreNames |-> <<>>]
    /\ lastOp = [op |-> "init"]
    /\ sessionStorage = <<>>
    /\ localStorage = <<>>
    /\ loginAttempts = <<>>
    /\ failedAt = [e \in Emails |-> <<>>]
    /\ sync = Idle
    /\ timers = Armed

\* time passes between two handlers
Tick(d) ==
    /\ TicksTaken(now) < MaxTicks
    /\ now' = now + d
    /\ lastOp' = [op |-> "tick"]
    /\ UNCHANGED <<memoryCache, stores>>
    /\ UNCHANGED <<storageVars, loginVars, backgroundVars>>

\* cacheManager.set(key, value, { strategy: 'memory', ttl })
SetMemory(key, value, ttl) ==
    /\ memoryCache' =
           SetMemoryCache(memoryCache, key, NewEntry(value, ttl, "memory", now), now)
    /\ lastOp' = [op |-> "set", key |-> key]
    /\ UNCHANGED <<now, stores>>
    /\ UNCHANGED <<storageVars, loginVars, backgroundVars>>

\* cacheManager.get(key, 'memory')
GetMemory(key) ==
    /\ LET got == GetMemoryCache(memoryCache, key) IN
          got.found /\ IsValid(got.entry, now) => got.entry.accessCount < MaxAccess
    /\ memoryCache' = TouchMemoryCache(memoryCache, key, now)
    /\ lastOp' = [op |-> "get", key |-> key,
                  result |-> GetMemoryResult(memoryCache, key, now)]
    /\ UNCHANGED <<now, stores>>
    /\ UNCHANGED <<storageVars, loginVars, backgroundVars>>

\* cacheManager.cleanup(), the periodic sweep
Cleanup ==
    /\ memoryCache' = CleanupMemory(memoryCache, now)
    /\ localStorage' = CleanupStorage(localStorage, CacheItems(localStorage), 1, now)
    /\ sessionStorage' = CleanupStorage(sessionStorage, CacheItems(sessionStorage), 1, now)
    /\ lastOp' = [op |-> "cleanup"]
    /\ UNCHANGED <<now, stores, loginVars, backgroundVars>>

NextCache ==
    \/ \E d \in TickSteps : Tick(d)
    \/ \E k \in Keys, v \in CacheValues, ttl \in TtlOptions : SetMemory(k, v, ttl)
    \/ \E k \in Keys : GetMemory(k)
    \/ Cleanup

SpecCache == Init /\ [][NextCache]_vars

\* the same calls on two keys and two values: expiry without eviction pressure
ExpiryKeys == {"k1", "k2"}
ExpiryValues == {Obj([data |-> Num(1)]), Obj([data |-> Num(2)])}

NextExpiry ==
    \/ \E d \in TickSteps : Tick(d)
    \/ \E k \in ExpiryKeys, v \in ExpiryValues, ttl \in TtlOptions : SetMemory(k, v, ttl)
    \/ \E k \in ExpiryKeys : GetMemory(k)
    \/ Cleanup

SpecExpiry == Init /\ [][NextExpiry]_vars

----------------------------------------------------------------------------
(* The cache driven through set and get with every strategy *)

TierKeys == {"k1"}

\* { data: 1 }, and { data: 'x'.repeat(n) } with a JSON text of the given length
Small == Obj([data |-> Num(1)])
PayloadOfLength(length) == Obj([data |-> Repeat(length - 11)])

\* values at the two size boundaries of auto, and values without a JSON text
AutoValues ==
    { Small,
      PayloadOfLength(AutoMemoryLimit - 1), PayloadOfLength(AutoMemoryLimit),
      PayloadOfLength(AutoSessionLimit - 1), PayloadOfLength(AutoSessionLimit),
      Undef, Function, Circular }

SetInputs ==
    { [value |-> v, strategy |-> "auto", ttl |-> 0] : v \in AutoValues }
    \cup { [value |-> Small, strategy |-> "memory", ttl |-> 1],
           [value |-> Undef, strategy |-> "memory", ttl |-> 0],
           [value |-> Small, strategy |-> "sessionStorage", ttl |-> 0],
           [value |-> Small, strategy |-> "localStorage", ttl |-> 0] }

Strategies == {"auto", "memory", "sessionStorage", "localStorage"}

\* cacheManager.set(key, value, { strategy, ttl })
SetCache(key, value, strategy, ttl, quotaOk) ==
    /\ \E outcome \in {CacheSet(Tiers(memoryCache, sessionStorage, localStorage),
                                 key, value, strategy, ttl, quotaOk, now)} :
          /\ memoryCache' = outcome.tiers.memory
          /\ sessionStorage' = outcome.tiers.session
          /\ localStorage' = outcome.tiers.local
          /\ lastOp' = [op |-> "cacheSet", key |-> key, value |-> value,
                        strategy |-> strategy, ttl |-> ttl, quotaOk |-> quotaOk,
                        threw |-> outcome.threw]
    /\ UNCHANGED <<now, stores, loginVars, backgroundVars>>

\* cacheManager.get(key, strategy)
GetCache(key, strategy) ==
    /\ LET got == GetMemoryCache(memoryCache, key) IN
          (strategy \in {"auto", "memory"} /\ got.found /\ IsValid(got.entry, now))
              => got.entry.accessCount < MaxAccess
    /\ \E tiers \in {Tiers(memoryCache, sessionStorage, localStorage)} :
          /\ memoryCache' = CacheGetTouch(tiers, key, strategy, now).memory
          /\ lastOp' = [op |-> "cacheGet", key |-> key, strategy |-> strategy,
                        result |-> CacheGet(tiers, key, strategy, now)]
    /\ UNCHANGED <<now, stores, storageVars, loginVars, backgroundVars>>

NextTiers ==
    \/ Tick(1)
    \/ \E k \in TierKeys, in \in SetInputs, quotaOk \in BOOLEAN :
          SetCache(k, in.value, in.strategy, in.ttl, quotaOk)
    \/ \E k \in TierKeys, strategy \in Strategies : GetCache(k, strategy)
    \/ Cleanup

SpecTiers == Init /\ [][NextTiers]_vars

----------------------------------------------------------------------------
(* the storage tiers filled to capacity, with an item under a cache_ key   *)
(* that is no JSON (written by another script of the origin)               *)

EvictKeys == {"k1", "k2"}

\* sessionStorage.setItem('cache_bad', 'oops') / localStorage.setItem(...)
MalformedItem(tier) ==
    /\ tier = "sessionStorage" =>
          /\ sessionStorage' = SetItem(sessionStorage, CacheItemKey("bad"), Str("oops"))
          /\ UNCHANGED localStorage
    /\ tier = "localStorage" =>
          /\ localStorage' = SetItem(localStorage, CacheItemKey("bad"), Str("oops"))
          /\ UNCHANGED sessionStorage
    /\ lastOp' = [op |-> "malformedItem", tier |-> tier]
    /\ UNCHANGED <<now, memoryCache, stores, loginVars, backgroundVars>>

NextEvict ==
    \/ Tick(1)
    \/ \E k \in EvictKeys, strategy \in {"sessionStorage", "localStorage"}, quotaOk \in BOOLEAN :
          SetCache(k, Small, strategy, 0, quotaOk)
    \/ \E tier \in {"sessionStorage", "localStorage"} : MalformedItem(tier)

SpecEvict == Init /\ [][NextEvict]_vars

----------------------------------------------------------------------------
(* the periodic cleanup over tiers that hold expired entries and an item   *)
(* that is no JSON                                                         *)

NextSweep ==
    \/ Tick(1)
    \/ \E k \in TierKeys, strategy \in {"memory", "sessionStorage", "localStorage"},
          ttl \in {0, 1} :
          SetCache(k, Small, strategy, ttl, TRUE)
    \/ \E tier \in {"sessionStorage", "localStorage"} : MalformedItem(tier)
    \/ Cleanup

SpecSweep == Init /\ [][NextSweep]_vars

----------------------------------------------------------------------------
(* CacheManager.clear, and the cache and the store snapshots side by side  *)
(* in localStorage                                                         *)

\* a variant that empties the storage: localStorage.clear()
ClearWholeStorage(storage) == SelectSeq(storage, LAMBDA e : FALSE)

\* getLocalStorageKeys().forEach(key => localStorage.removeItem(key))
ClearStorage(storage) == SelectSeq(storage, LAMBDA e : ~IsCacheItemKey(e.key))

\* cacheManager.clear()
Clear ==
    /\ memoryCache' = <<>>
    /\ localStorage' = ClearStorage(localStorage)
    /\ sessionStorage' = ClearStorage(sessionStorage)
    /\ lastOp' = [op |-> "clear"]
    /\ UNCHANGED <<now, stores, loginVars, backgroundVars>>

----------------------------------------------------------------------------
(* The record stores driven by their callers: addData, updateData,         *)
(* deleteData and importData on the stores, with the write-through to the  *)
(* memory tier, and core.js caching its 'app-data' in the same tier.       *)

SalesRecord ==
    [ name |-> Str("Ann"), monthlyTarget |-> Num(20), mtdTarget |-> Num(10),
      mtdActual |-> Num(15) ]

DsrRecord ==
    [ name |-> Str("John"), dsrId |-> Str("DSR001"), cluster |-> Str("North"),
      captainName |-> Str("Al"), lastMonthActual |-> Num(100),
      thisMonthActual |-> Num(110), slab |-> Str("Gold") ]

WithId(record, id) == Spread(record, [id |-> Str(id)])

\* what generateId() may return
GeneratedIds == {"g1"}

AddInputs ==
    { [store |-> "sales", data |-> WithId(SalesRecord, "a")],
      [store |-> "sales", data |-> WithId(SalesRecord, "b")],
      \* no id, and timestamps of the caller's own
      [store |-> "sales",
       data |-> Spread(SalesRecord, [createdAt |-> DateV(7), updatedAt |-> DateV(7)])],
      \* the required field name is missing
      [store |-> "sales",
       data |-> [id |-> Str("b"), monthlyTarget |-> Num(20), mtdTarget |-> Num(10),
                 mtdActual |-> Num(15)]],
      [store |-> "dsr", data |-> WithId(DsrRecord, "a")],
      [store |-> "nope", data |-> WithId(SalesRecord, "a")] }

UpdateInputs ==
    { \* each valid on its own, each leaving a sales record that breaks a rule
      [store |-> "sales", id |-> Str("a"), patch |-> [mtdTarget |-> Num(30)]],
      [store |-> "sales", id |-> Str("a"), patch |-> [mtdActual |-> Num(25)]],
      [store |-> "sales", id |-> Str("a"), patch |-> [monthlyTarget |-> Num(12)]],
      \* a new name, and an updatedAt of the caller's own
      [store |-> "sales", id |-> Str("a"),
       patch |-> [name |-> Str("Bob"), updatedAt |-> DateV(7)]],
      \* a patch that carries an id
      [store |-> "sales", id |-> Str("b"), patch |-> [id |-> Str("a")]],
      [store |-> "sales", id |-> Str("zz"), patch |-> EmptyObject],
      [store |-> "dsr", id |-> Str("a"), patch |-> EmptyObject],
      \* growth of 60% and of 120%
      [store |-> "dsr", id |-> Str("a"), patch |-> [thisMonthActual |-> Num(160)]],
      [store |-> "dsr", id |-> Str("a"), patch |-> [lastMonthActual |-> Num(50)]],
      [store |-> "nope", id |-> Str("a"), patch |-> EmptyObject] }

DeleteInputs ==
    { [store |-> "sales", id |-> Str("a")],
      [store |-> "sales", id |-> Str("b")],
      [store |-> "nope", id |-> Str("a")] }

ImportInputs ==
    { [store |-> "sales", items |-> <<WithId(SalesRecord, "a"), WithId(SalesRecord, "a")>>],
      [store |-> "nope", items |-> <<SalesRecord>>] }

\* the DataManager and the CacheManager it writes through to
Managers == [stores |-> stores, cache |-> memoryCache]

TotalRecords == Len(stores["sales"]) + Len(stores["dsr"]) + Len(stores["de"])
                + Len(stores["salesLog"])

\* the call as the caller sees it
Call(op, storeName, id, data, outcome) ==
    [ op |-> op, store |-> storeName, id |-> id, data |-> data,
      ok |-> outcome.ok, message |-> outcome.message, errors |-> outcome.errors,
      value |-> outcome.value ]

\* dataManager.addData(storeName, data)
Add(storeName, data, generatedId) ==
    /\ TotalRecords < MaxRecords
    /\ \E outcome \in {AddData(Managers, storeName, data, generatedId, now)} :
          /\ stores' = outcome.st.stores
          /\ memoryCache' = outcome.st.cache
          /\ lastOp' = Call("add", storeName, Prop(data, "id"), data, outcome)
    /\ UNCHANGED now
    /\ UNCHANGED <<storageVars, loginVars, backgroundVars>>

\* dataManager.updateData(storeName, id, updates)
Update(storeName, id, updates) ==
    /\ \E outcome \in {UpdateData(Managers, storeName, id, updates, now)} :
          /\ stores' = outcome.st.stores
          /\ memoryCache' = outcome.st.cache
          /\ lastOp' = Call("update", storeName, id, updates, outcome)
    /\ UNCHANGED now
    /\ UNCHANGED <<storageVars, loginVars, backgroundVars>>

\* dataManager.deleteData(storeName, id)
Delete(storeName, id) ==
    /\ \E outcome \in {DeleteData(Managers, storeName, id, now)} :
          /\ stores' = outcome.st.stores
          /\ memoryCache' = outcome.st.cache
          /\ lastOp' = Call("delete", storeName, id, EmptyObject, outcome)
    /\ UNCHANGED now
    /\ UNCHANGED <<storageVars, loginVars, backgroundVars>>

\* dataManager.importData(storeName, items)
Import(storeName, items, generatedIds) ==
    /\ TotalRecords + Len(items) <= MaxRecords
    /\ IF storeName \notin StoreNames
       THEN /\ lastOp' = [op |-> "import", store |-> storeName, ok |-> FALSE,
                          message |-> "Store " \o storeName \o " not found"]
            /\ UNCHANGED <<stores, memoryCache>>
       ELSE \E results \in {ImportData(Managers, storeName, items, generatedIds, now, 1)} :
            /\ stores' = results.st.stores
            /\ memoryCache' = results.st.cache
            /\ lastOp' = [op |-> "import", store |-> storeName, ok |-> TRUE,
                          success |-> results.success, errors |-> results.errors]
    /\ UNCHANGED now
    /\ UNCHANGED <<storageVars, loginVars, backgroundVars>>

\* core.js: cacheManager.set('app-data', appData, { strategy: 'memory', ttl: 5 * 60 * 1000 }),
\* once, when the application has loaded; of appData the model keeps its timestamp
SetAppData ==
    /\ lastOp.op = "init"
    /\ memoryCache' =
           SetMemoryCache(memoryCache, "app-data",
                          NewEntry(Obj([timestamp |-> Num(now)]), DataCacheTTL, "memory", now),
                          now)
    /\ lastOp' = [op |-> "set", key |-> "app-data"]
    /\ UNCHANGED <<now, stores>>
    /\ UNCHANGED <<storageVars, loginVars, backgroundVars>>

NextData ==
    \/ Tick(1)
    \/ \E in \in AddInputs, g \in GeneratedIds : Add(in.store, in.data, g)
    \/ \E in \in UpdateInputs : Update(in.store, in.id, in.patch)
    \/ \E in \in DeleteInputs : Delete(in.store, in.id)
    \/ \E in \in ImportInputs, g \in GeneratedIds : Import(in.store, in.items, <<g, g>>)
    \/ SetAppData

SpecData == Init /\ [][NextData]_vars

----------------------------------------------------------------------------
(* saveAllData and loadAllData over localStorage *)

\* the stores in the order setupDataStores declares them
StoreOrder == <<"sales", "dsr", "de", "salesLog">>

\* `data-${storeName}`
DataItemKey(storeName) == "data-" \o storeName

\* store.data holding a value that is not an array: the value sits in one
\* cell under a property name no record has
NonArray(value) == <<[p \in {"!value"} |-> value]>>

\* Array.isArray(store.data)
IsArray(data) == ~(Len(data) = 1 /\ "!value" \in DOMAIN data[1])

\* JSON.stringify(store.data)
StringifyData(data) ==
    IF IsArray(data) THEN JsonStringify(Arr(data))
    ELSE Serialize(data[1]["!value"])

\* saveAllData: one setItem per store, each in its own try; failing holds
\* the stores whose setItem throws (quota)
RECURSIVE SaveAllData(_, _, _, _)
SaveAllData(st, storage, failing, i) ==
    IF i > Len(StoreOrder) THEN storage
    ELSE SaveAllData(st,
                     IF StoreOrder[i] \in failing THEN storage
                     ELSE SetItem(storage, DataItemKey(StoreOrder[i]),
                                  StringifyData(st[StoreOrder[i]])),
                     failing, i + 1)

\* one round of the loop of loadAllData: store.data after it
LoadData(data, storage, storeName) ==
    LET saved == GetItem(storage, DataItemKey(storeName)) IN
    IF ~saved.found THEN data
    ELSE IF ~Parsable(saved.item)
         THEN data            \* '' is falsy; JSON.parse throws on other texts
         ELSE LET parsed == JsonParse(saved.item) IN
              IF "k" \in DOMAIN parsed
              THEN IF parsed.k = "array" THEN parsed.list ELSE NonArray(parsed)
              ELSE NonArray(parsed)

\* loadAllData
LoadAllData(st, storage) == [s \in StoreNames |-> LoadData(st[s], storage, s)]

\* the autosave timer, or beforeunload
SaveAll(failing) ==
    /\ localStorage' = SaveAllData(stores, localStorage, failing, 1)
    /\ lastOp' = [op |-> "saveAll", failing |-> failing]
    /\ UNCHANGED <<now, memoryCache, stores, sessionStorage, loginVars, backgroundVars>>

\* the page is loaded: every manager is constructed anew, then
\* dataManager.loadAllData()
PageLoad ==
    /\ stores' = LoadAllData([s \in StoreNames |-> <<>>], localStorage)
    /\ memoryCache' = <<>>
    /\ loginAttempts' = <<>>
    /\ sync' = Idle
    /\ timers' = Armed
    /\ lastOp' = [op |-> "pageLoad"]
    /\ UNCHANGED <<now, storageVars, failedAt>>

PersistRecords ==
    { [store |-> "sales", data |-> WithId(SalesRecord, "a")],
      [store |-> "sales", data |-> WithId(SalesRecord, "b")],
      [store |-> "dsr", data |-> WithId(DsrRecord, "d")] }

NextPersist ==
    \/ Tick(1)
    \/ \E in \in PersistRecords, g \in GeneratedIds : Add(in.store, in.data, g)
    \/ Update("sales", Str("a"), [name |-> Str("Bob")])
    \/ \E in \in PersistRecords : Delete(in.store, in.data["id"])
    \/ \E failing \in {{}, {"sales"}} : SaveAll(failing)
    \/ PageLoad

SpecPersist == Init /\ [][NextPersist]_vars

\* what localStorage may hold under data-<storeName> when something other
\* than saveAllData wrote it: texts that are no JSON, the empty text, and
\* the JSON of an object, a number, a string, null, an empty array
ForeignItems ==
    { Str("oops"), Str(""),
      [json |-> Obj([total |-> Num(1)])], [json |-> Num(7)],
      [json |-> Str("x")], [json |-> Null], [json |-> Arr(<<>>)] }

\* another script of the origin, or the user, writes or removes an item
ForeignWrite(storeName, item) ==
    /\ localStorage' = SetItem(localStorage, DataItemKey(storeName), item)
    /\ lastOp' = [op |-> "foreignWrite", store |-> storeName]
    /\ UNCHANGED <<now, memoryCache, stores, sessionStorage, loginVars, backgroundVars>>

ForeignRemove(storeName) ==
    /\ localStorage' = RemoveItem(localStorage, DataItemKey(storeName))
    /\ lastOp' = [op |-> "foreignRemove", store |-> storeName]
    /\ UNCHANGED <<now, memoryCache, stores, sessionStorage, loginVars, backgroundVars>>

\* addData on what loadAllData left: store.data.find is a TypeError when
\* store.data is not an array
AddLoaded(storeName, data, generatedId) ==
    IF IsArray(stores[storeName])
    THEN Add(storeName, data, generatedId)
    ELSE /\ lastOp' = [op |-> "add", store |-> storeName, ok |-> FALSE,
                       message |-> "store.data.find is not a function"]
         /\ UNCHANGED <<now, memoryCache, stores>>
         /\ UNCHANGED <<storageVars, loginVars, backgroundVars>>

NextLoad ==
    \/ \E storeName \in {"sales", "dsr"}, item \in ForeignItems : ForeignWrite(storeName, item)
    \/ \E storeName \in {"sales", "dsr"} : ForeignRemove(storeName)
    \/ \E in \in PersistRecords, g \in GeneratedIds : AddLoaded(in.store, in.data, g)
    \/ SaveAll({})
    \/ PageLoad

SpecLoad == Init /\ [][NextLoad]_vars

----------------------------------------------------------------------------
(* login rate limiting: loginAttempts is a Map from email to               *)
(* { count, lastAttempt }; failedAt keeps, for each email, the times of    *)
(* the failed attempts logged since the last resetLoginRateLimit           *)

MAX_ATTEMPTS == 5
LOCKOUT_DURATION == 15 * 60 * 1000

MaxLoginTicks == 3
MaxFailures == 6

\* loginAttempts.get(email) || { count: 0, lastAttempt: 0 }
AttemptsOf(attempts, email) ==
    IF HasKey(attempts, email)
    THEN attempts[IndexOfKey(attempts, email, 1)].entry
    ELSE [count |-> 0, lastAttempt |-> 0]

\* checkLoginRateLimit: the count is zeroed on the object read from the
\* Map, so a stored object keeps the zero
CheckedAttempts(attempts, email, t) ==
    LET a == AttemptsOf(attempts, email) IN
    IF t - a.lastAttempt > LOCKOUT_DURATION THEN [a EXCEPT !.count = 0] ELSE a

CheckLoginRateLimit(email) ==
    /\ \E checked \in {CheckedAttempts(loginAttempts, email, now)} :
          /\ loginAttempts' = IF HasKey(loginAttempts, email)
                              THEN MapSet(loginAttempts, email, checked)
                              ELSE loginAttempts
          /\ lastOp' = [op |-> "checkLoginRateLimit", email |-> email,
                        result |-> checked.count < MAX_ATTEMPTS]
    /\ UNCHANGED <<now, memoryCache, stores, storageVars, failedAt, backgroundVars>>

ResetLoginRateLimit(email) ==
    /\ loginAttempts' = MapDelete(loginAttempts, email)
    /\ failedAt' = [failedAt EXCEPT ![email] = <<>>]
    /\ lastOp' = [op |-> "resetLoginRateLimit", email |-> email]
    /\ UNCHANGED <<now, memoryCache, stores, storageVars, backgroundVars>>

FailuresLogged == Len(failedAt["a@x.io"]) + Len(failedAt["b@x.io"])

LogFailedLoginAttempt(email) ==
    /\ FailuresLogged < MaxFailures
    /\ loginAttempts' =
          MapSet(loginAttempts, email,
                 [count |-> AttemptsOf(loginAttempts, email).count + 1,
                  lastAttempt |-> now])
    /\ failedAt' = [failedAt EXCEPT ![email] = Append(@, now)]
    /\ lastOp' = [op |-> "logFailedLoginAttempt", email |-> email]
    /\ UNCHANGED <<now, memoryCache, stores, storageVars, backgroundVars>>

\* a little more than half the lockout passes between two handlers
LoginTick ==
    /\ now < MaxLoginTicks * (LOCKOUT_DURATION \div 2 + 1)
    /\ now' = now + LOCKOUT_DURATION \div 2 + 1
    /\ lastOp' = [op |-> "tick"]
    /\ UNCHANGED <<memoryCache, stores, storageVars, loginVars, backgroundVars>>

NextLogin ==
    \/ LoginTick
    \/ \E email \in Emails : CheckLoginRateLimit(email)
    \/ \E email \in Emails : LogFailedLoginAttempt(email)
    \/ \E email \in Emails : ResetLoginRateLimit(email)

SpecLogin == Init /\ [][NextLogin]_vars

----------------------------------------------------------------------------
(* cache operations and store snapshots on the same localStorage *)

\* cache keys, one of them spelled like the key of a snapshot
NamespaceKeys == {"k1", "data-sales"}

NextNamespace ==
    \/ Tick(1)
    \/ \E g \in GeneratedIds : Add("sales", WithId(SalesRecord, "a"), g)
    \/ SaveAll({})
    \/ PageLoad
    \/ \E k \in NamespaceKeys, strategy \in {"sessionStorage", "localStorage"} :
          SetCache(k, Small, strategy, 1, TRUE)
    \/ Cleanup
    \/ Clear

SpecNamespace == Init /\ [][NextNamespace]_vars

----------------------------------------------------------------------------
(* syncWithFirebase: an async function that awaits getDocs once per store  *)
(* and is suspended while it waits; other handlers run in between.         *)
(* sync.issued remembers the store's records at the moment the getDocs for *)
(* that store was issued.                                                  *)

\* snapshot.docs.map(doc => ({ id: doc.id, ...doc.data() })) for what the
\* remote collection may hold
RemoteSnapshots == { <<>>, <<WithId(SalesRecord, "r")>> }

\* the call up to its first await: getDocs for the first store is issued
SyncStart ==
    /\ sync.pc = "idle"
    /\ sync' = [pc |-> "awaiting", i |-> 1, issued |-> stores[StoreOrder[1]]]
    /\ lastOp' = [op |-> "syncStart"]
    /\ UNCHANGED <<now, memoryCache, stores, storageVars, loginVars, timers>>

\* getDocs resolves: store.data is replaced by the snapshot, and the loop
\* goes on to the next store or ends
SyncReceive(docs) ==
    /\ sync.pc = "awaiting"
    /\ stores' = [stores EXCEPT ![StoreOrder[sync.i]] = docs]
    /\ sync' = IF sync.i = Len(StoreOrder) THEN Idle
               ELSE [pc |-> "awaiting", i |-> sync.i + 1,
                     issued |-> stores[StoreOrder[sync.i + 1]]]
    /\ lastOp' = [op |-> "syncReceive", store |-> StoreOrder[sync.i]]
    /\ UNCHANGED <<now, memoryCache, storageVars, loginVars, timers>>

\* getDocs rejects: the catch ends the loop
SyncFail ==
    /\ sync.pc = "awaiting"
    /\ sync' = Idle
    /\ lastOp' = [op |-> "syncFail", store |-> StoreOrder[sync.i]]
    /\ UNCHANGED <<now, memoryCache, stores, storageVars, loginVars, timers>>

\* dataManager.syncWithLocalStorage(), or loadAllData() called on the
\* manager in use
LoadAll ==
    /\ stores' = LoadAllData(stores, localStorage)
    /\ lastOp' = [op |-> "loadAll"]
    /\ UNCHANGED <<now, memoryCache, storageVars, loginVars, backgroundVars>>

\* the handlers of the other specifications leave sync and timers alone;
\* here the mutations run while a sync may be suspended
NextSync ==
    \/ Tick(1)
    \/ \E id \in {"a", "b"}, g \in GeneratedIds : Add("sales", WithId(SalesRecord, id), g)
    \/ Update("sales", Str("a"), [name |-> Str("Bob")])
    \/ Delete("sales", Str("a"))
    \/ Delete("sales", Str("r"))
    \/ SyncStart
    \/ \E docs \in RemoteSnapshots : SyncReceive(docs)
    \/ SyncFail

SpecSync == Init /\ [][NextSync]_vars

\* every operation that replaces or changes a store's records
NextReplace ==
    \/ \E g \in GeneratedIds : Add("sales", WithId(SalesRecord, "a"), g)
    \/ Update("sales", Str("a"), [name |-> Str("Bob")])
    \/ Delete("sales", Str("a"))
    \/ SaveAll({})
    \/ LoadAll
    \/ SyncStart
    \/ \E docs \in RemoteSnapshots : SyncReceive(docs)
    \/ SyncFail

SpecReplace == Init /\ [][NextReplace]_vars

----------------------------------------------------------------------------
(* the periodic timers: CacheManager arms cleanupInterval (60 s) in its    *)
(* constructor, DataManager arms autoSaveInterval (30 s) and a             *)
(* beforeunload listener in setupDataPersistence.  Nothing in the          *)
(* repository calls clearInterval.                                         *)

\* setInterval(() => this.cleanup(), 60000) fires
CleanupTick ==
    /\ timers.cleanupInterval
    /\ Cleanup

\* setInterval(() => { this.saveAllData(); }, 30000) fires
AutoSaveTick ==
    /\ timers.autoSaveInterval
    /\ \E failing \in {{}, {"sales"}} : SaveAll(failing)

\* the beforeunload listener, the only code that runs when the page is torn
\* down: it saves and leaves both intervals armed.  The page lives on when
\* the unload is cancelled or the page is restored from the history cache.
BeforeUnload ==
    /\ localStorage' = SaveAllData(stores, localStorage, {}, 1)
    /\ timers' = [timers EXCEPT !.unloading = TRUE]
    /\ lastOp' = [op |-> "beforeunload"]
    /\ UNCHANGED <<now, memoryCache, stores, sessionStorage, loginVars, sync>>

NextTimers ==
    \/ Tick(1)
    \/ \E id \in {"a", "b"}, g \in GeneratedIds : Add("sales", WithId(SalesRecord, id), g)
    \/ \E strategy \in {"memory", "sessionStorage"} : SetCache("k1", Small, strategy, 1, TRUE)
    \/ CleanupTick
    \/ AutoSaveTick
    \/ BeforeUnload
    \/ PageLoad

SpecTimers == Init /\ [][NextTimers]_vars

----------------------------------------------------------------------------
(* queryData on stores filled by addData *)

QueryRecords ==
    { WithId(SalesRecord, "a"),
      WithId(Spread(SalesRecord, [name |-> Str("Bob")]), "b"),
      WithId(Spread(SalesRecord, [name |-> Str("Al")]), "zz") }

\* options.sort: the [field, direction] pairs in declaration order
SortOptions ==
    { <<>>,
      <<[field |-> "name", direction |-> "asc"]>>,
      <<[field |-> "name", direction |-> "desc"]>>,
      <<[field |-> "monthlyTarget", direction |-> "asc"], [field |-> "id", direction |-> "desc"]>> }

\* options.limit and options.offset: not given, or a number
LimitOptions == {Undef, Num(0), Num(1)}
OffsetOptions == {Undef, Num(1)}

\* what queryData makes of its options: options.limit || results.length and
\* options.offset || 0 cannot tell a 0 from an option that was not given
QueryOptions(filterId, sort, limit, offset) ==
    [ hasFilter |-> filterId # Undef, filterId |-> filterId, sort |-> sort,
      limit |-> IF Falsy(limit) THEN 0 ELSE limit.n,
      offset |-> IF Falsy(offset) THEN 0 ELSE offset.n ]

\* dataManager.queryData(storeName, { filter: r => r.id === filterId, sort, limit, offset })
Query(storeName, filterId, sort, limit, offset) ==
    /\ lastOp' =
          IF storeName \notin StoreNames
          THEN [op |-> "query", store |-> storeName, ok |-> FALSE,
                message |-> "Store " \o storeName \o " not found"]
          ELSE [op |-> "query", store |-> storeName, ok |-> TRUE,
                filterId |-> filterId, sort |-> sort, limit |-> limit, offset |-> offset,
                result |-> QueryData(stores[storeName],
                                     QueryOptions(filterId, sort, limit, offset))]
    /\ UNCHANGED <<now, memoryCache, stores>>
    /\ UNCHANGED <<storageVars, loginVars, backgroundVars>>

NextQuery ==
    \/ \E r \in QueryRecords, g \in GeneratedIds : Add("sales", r, g)
    \/ \E storeName \in {"sales", "nope"}, filterId \in {Undef, Str("a")},
          sort \in SortOptions, limit \in LimitOptions, offset \in OffsetOptions :
          Query(storeName, filterId, sort, limit, offset)

SpecQuery == Init /\ [][NextQuery]_vars

----------------------------------------------------------------------------
(* validateData called on its own *)

DsrAmounts == {0, 1, 2, 50, 75, 100, 110, 150, 151, 160}

\* records as addData hands them to validateData
ValidateInputs ==
    { [store |-> "dsr",
       data |-> Enrich(WithId(Spread(DsrRecord,
                                     [ captainName |-> Str(c),
                                       lastMonthActual |-> Num(l),
                                       thisMonthActual |-> Num(v) ]), "a"), "g1", 0)]
        : c \in {"Al", "A"}, l \in DsrAmounts, v \in DsrAmounts }
    \cup
    \* a sales record whose monthlyTarget is of the wrong type, out of range or missing
    { [store |-> "sales",
       data |-> Enrich(WithId(Spread(SalesRecord, [monthlyTarget |-> x]), "a"), "g1", 0)]
        : x \in {Str("-5"), Str("7"), Num(5), Null} }
    \cup
    \* a dsr record whose dsrId is a number
    { [store |-> "dsr",
       data |-> Enrich(WithId(Spread(DsrRecord, [dsrId |-> Num(7)]), "a"), "g1", 0)] }

\* dataManager.validateData(storeName, data)
Validate(storeName, data) ==
    /\ lastOp' = [op |-> "validate", store |-> storeName, data |-> data,
                  result |-> ValidateData(storeName, data)]
    /\ UNCHANGED <<now, memoryCache, stores>>
    /\ UNCHANGED <<storageVars, loginVars, backgroundVars>>

NextValidate == \E in \in ValidateInputs : Validate(in.store, in.data)

SpecValidate == Init /\ [][NextValidate]_vars

\* the keys the memory tier holds
MemoryKeys(cache) == {cache[i].key : i \in 1..Len(cache)}

\* C1: the memory tier never holds more than its capacity (maxSize) entries,
\* whatever the keys and clock readings of the sets, gets and cleanups before.
MemoryWithinCapacity == Len(memoryCache) <= MaxSize

\* C10: a set of a new key that finds the memory tier at capacity evicts
\* exactly one entry, one whose lastAccess is the oldest among the entries
\* present before the insertion, and keeps every other entry and the new one.
EvictsExactlyTheOldest ==
    [][ ( /\ lastOp'.op = "set"
          /\ ~HasKey(memoryCache, lastOp'.key)
          /\ Len(memoryCache) >= MaxSize )
        => \E i \in 1..Len(memoryCache) :
              /\ \A j \in 1..Len(memoryCache) :
                     memoryCache[i].entry.lastAccess <= memoryCache[j].entry.lastAccess
              /\ MemoryKeys(memoryCache') =
                     (MemoryKeys(memoryCache) \ {memoryCache[i].key}) \cup {lastOp'.key}
              /\ Len(memoryCache') = Len(memoryCache)
              /\ \A j \in 1..Len(memoryCache) :
                     j # i => GetMemoryCache(memoryCache', memoryCache[j].key)
                              = [found |-> TRUE, entry |-> memoryCache[j].entry]
      ]_vars

----------------------------------------------------------------------------
(* The record stores: what the calls guarantee *)

CacheKeyOf(storeName) == storeName \o "-data"

HasId(data, id) == \E i \in 1..Len(data) : Prop(data[i], "id") = id

\* C2: a failed addData or updateData (validation failure, duplicate id,
\* unknown id, unknown store) throws and leaves the store's records and the
\* cache as they were; an add without the required field name is rejected
\* with an error that contains 'name is required'.
FailedCallChangesNothing ==
    [][ lastOp'.op \in {"add", "update"} =>
          /\ ~lastOp'.ok => (stores' = stores /\ memoryCache' = memoryCache)
          /\ lastOp'.store \notin StoreNames => ~lastOp'.ok
          /\ ( /\ lastOp'.op = "add"
               /\ lastOp'.store \in StoreNames
               /\ HasId(stores[lastOp'.store], lastOp'.id) ) => ~lastOp'.ok
          /\ ( /\ lastOp'.op = "update"
               /\ lastOp'.store \in StoreNames
               /\ ~HasId(stores[lastOp'.store], lastOp'.id) ) => ~lastOp'.ok
          /\ ( /\ lastOp'.op = "add"
               /\ lastOp'.store = "sales"
               /\ IsBlank(Prop(lastOp'.data, "name")) )
             => /\ ~lastOp'.ok
                /\ \E i \in 1..Len(lastOp'.errors) : lastOp'.errors[i] = "name is required"
      ]_vars

\* an add without a name was rejected on a store that holds a cached record
RejectedNamelessAdd ==
    /\ lastOp.op = "add"
    /\ ~lastOp.ok
    /\ lastOp.message = "Validation failed: name is required"
    /\ Len(stores["sales"]) = 1
    /\ HasKey(memoryCache, "sales-data")

\* C3: no two records of a store have the same id, after any sequence of
\* addData, updateData (with any patch), deleteData and importData.
IdsUniqueWithinStore ==
    \A s \in StoreNames :
        \A i, j \in 1..Len(stores[s]) :
            i # j => Prop(stores[s][i], "id") # Prop(stores[s][j], "id")

SuccessfulMutation == lastOp.op \in {"add", "update", "delete"} /\ lastOp.ok

\* what a record reads as once it went through the cache: a Date field is
\* the ISO string of its instant, every other field is itself
AsCached(record) ==
    [f \in DOMAIN record |->
        IF record[f].t = "date" THEN IsoString(record[f].n) ELSE record[f]]

\* C4: right after a successful addData, updateData or deleteData the memory
\* tier holds '<storeName>-data', set by that call with a TTL of 5 minutes,
\* and a get returns the post-mutation record list (record for record, as
\* the cache's JSON copy renders it: a Date field is its ISO string): never
\* the pre-mutation list and never absent.
GetAfterMutationReturnsJsonOfRecords ==
    SuccessfulMutation =>
        LET got == GetMemoryResult(memoryCache, CacheKeyOf(lastOp.store), now)
            entry == GetMemoryCache(memoryCache, CacheKeyOf(lastOp.store))
            data == stores[lastOp.store]
        IN  /\ got.hit
            /\ got.value.k = "array"
            /\ Len(got.value.list) = Len(data)
            /\ \A i \in 1..Len(data) : got.value.list[i] = AsCached(data[i])
            /\ entry.entry.ttl = DataCacheTTL
            /\ entry.entry.timestamp = now

\* a delete left one of two records, in a tier that had reached its capacity
DeletedWithCacheFull ==
    /\ lastOp.op = "delete"
    /\ lastOp.ok
    /\ Len(stores["sales"]) = 1
    /\ Len(memoryCache) >= MaxSize
    /\ HasKey(memoryCache, "app-data")

\* C6: after a successful addData the query on the returned id gives exactly
\* the returned record; an id is assigned when the data carries none;
\* createdAt and updatedAt are the time of the call; the other fields are
\* those of the data.
AddedRecordIsQueried ==
    (lastOp.op = "add" /\ lastOp.ok) =>
        /\ QueryById(stores[lastOp.store], lastOp.value["id"]) = <<lastOp.value>>
        /\ lastOp.value["id"].t = "string" /\ lastOp.value["id"].s # ""
        /\ ~Falsy(lastOp.id) => lastOp.value["id"] = lastOp.id
        /\ lastOp.value["createdAt"] = DateV(now)
        /\ lastOp.value["updatedAt"] = DateV(now)
        /\ DOMAIN lastOp.value = DOMAIN lastOp.data \cup {"id", "createdAt", "updatedAt"}
        /\ \A f \in DOMAIN lastOp.data \ {"id", "createdAt", "updatedAt"} :
              lastOp.value[f] = lastOp.data[f]

\* a record without an id was added, later than another one
AddedWithGeneratedId ==
    /\ lastOp.op = "add"
    /\ lastOp.ok
    /\ lastOp.id = Undef
    /\ "createdAt" \in DOMAIN lastOp.data
    /\ Len(stores["sales"]) = 2
    /\ now > 0

\* C7: a successful updateData leaves, in the same position, the record
\* {...old, ...patch} with updatedAt re-stamped by the call (whatever the
\* patch says) and not earlier than before; every other record is unchanged.
UpdateMergesInPlace ==
    [][ (lastOp'.op = "update" /\ lastOp'.ok) =>
          LET s == lastOp'.store
              i == FindIndexById(stores[s], lastOp'.id, 1)
              old == stores[s][i]
              patch == lastOp'.data
              new == stores'[s][i]
          IN  /\ i # 0
              /\ Len(stores'[s]) = Len(stores[s])
              /\ \A j \in 1..Len(stores[s]) : j # i => stores'[s][j] = stores[s][j]
              /\ \A other \in StoreNames \ {s} : stores'[other] = stores[other]
              /\ QueryData(stores'[s], [hasFilter |-> FALSE, filterId |-> Undef,
                                        sort |-> <<>>, limit |-> 0, offset |-> 0])[i] = new
              /\ lastOp'.value = new
              /\ DOMAIN new = DOMAIN old \cup DOMAIN patch \cup {"updatedAt"}
              /\ \A f \in DOMAIN new \ {"updatedAt"} :
                    new[f] = IF f \in DOMAIN patch THEN patch[f] ELSE old[f]
              /\ new["updatedAt"] = DateV(now')
              /\ old["updatedAt"].t = "date"
              /\ new["updatedAt"].n >= old["updatedAt"].n
      ]_vars

\* the second of two records was given a new name and an updatedAt of the
\* caller's, after the clock had moved
UpdatedWithOwnTimestamp ==
    /\ lastOp.op = "update"
    /\ lastOp.ok
    /\ "updatedAt" \in DOMAIN lastOp.data
    /\ lastOp.value["name"] = Str("Bob")
    /\ lastOp.value["updatedAt"].n > lastOp.value["createdAt"].n
    /\ Len(stores["sales"]) = 2
    /\ Prop(stores["sales"][2], "id") = lastOp.id

\* the cross-field rules, as the schema's owner states them
BreaksSalesRules(record) ==
    \/ record["monthlyTarget"].n < record["mtdTarget"].n
    \/ record["mtdActual"].n > record["monthlyTarget"].n

BreaksDsrRules(record) ==
    /\ record["lastMonthActual"].n > 0
    /\ 2 * (record["thisMonthActual"].n - record["lastMonthActual"].n)
          > record["lastMonthActual"].n

\* C8: updateData rejects a patch that leaves the merged record in breach of
\* a cross-field rule, whichever of the related fields the patch touches.
UpdateValidatesMergedRecord ==
    [][ (lastOp'.op = "update" /\ lastOp'.store \in {"sales", "dsr"}
            /\ HasId(stores[lastOp'.store], lastOp'.id)) =>
          LET s == lastOp'.store
              old == stores[s][FindIndexById(stores[s], lastOp'.id, 1)]
              patch == lastOp'.data
              merged == [f \in DOMAIN old \cup DOMAIN patch |->
                            IF f \in DOMAIN patch THEN patch[f] ELSE old[f]]
          IN  /\ (s = "sales" /\ BreaksSalesRules(merged)) => ~lastOp'.ok
              /\ (s = "dsr" /\ BreaksDsrRules(merged)) => ~lastOp'.ok
      ]_vars

\* a patch of mtdTarget alone was rejected by the rule on monthlyTarget
RejectedPatchOfRelatedField ==
    /\ lastOp.op = "update"
    /\ ~lastOp.ok
    /\ lastOp.data = [mtdTarget |-> Num(30)]
    /\ lastOp.errors = <<"Monthly target must be greater than or equal to MTD target">>

\* C9: deleteData on an existing id removes exactly that record and returns
\* it, a query on that id is then empty, and a second deleteData with the
\* same id fails (not found) and changes nothing.
DeleteRemovesTheId ==
    [][ (lastOp'.op = "delete" /\ lastOp'.ok) =>
          LET s == lastOp'.store
              i == FindIndexById(stores[s], lastOp'.id, 1)
              again == DeleteData([stores |-> stores', cache |-> memoryCache'],
                                  s, lastOp'.id, now')
          IN  /\ i # 0
              /\ stores'[s] = RemoveAt(stores[s], i)
              /\ lastOp'.value = stores[s][i]
              /\ QueryById(stores'[s], lastOp'.id) = <<>>
              /\ ~again.ok
              /\ again.st.stores = stores'
      ]_vars

----------------------------------------------------------------------------
(* validateData: the growth rule of the dsr store *)

\* C5: the dsr growth rule passes exactly when lastMonthActual is 0 or
\* (thisMonthActual - lastMonthActual) / lastMonthActual <= 0.5.
GrowthRulePassesExactlyWhenSpecified ==
    (lastOp.op = "validate" /\ lastOp.store = "dsr"
        /\ Len(SchemaErrors(Schema("dsr"), lastOp.data, 1)) = 0) =>
        LET last == lastOp.data["lastMonthActual"].n
            this == lastOp.data["thisMonthActual"].n
        IN  lastOp.result.valid <=> (last = 0 \/ 2 * (this - last) <= last)

----------------------------------------------------------------------------
(* The cache: expiry on read *)

\* C11: get(key, 'memory') returns absent whenever now - timestamp >= ttl for
\* the entry the tier holds (swept or not) and when it holds none, and
\* returns the stored value whenever now - timestamp < ttl; a value set with
\* ttl 1 is absent one millisecond later.
ExpiredOnRead ==
    [][ lastOp'.op = "get" =>
          LET i == IndexOfKey(memoryCache, lastOp'.key, 1) IN
          IF i # 0 /\ now - memoryCache[i].entry.timestamp < memoryCache[i].entry.ttl
          THEN /\ lastOp'.result.hit
               /\ lastOp'.result.value = JsonParse(memoryCache[i].entry.value)
               /\ lastOp'.result.value \in ExpiryValues
          ELSE ~lastOp'.result.hit
      ]_vars

\* a get missed on an entry with ttl 1 that the sweep had not removed
ExpiredButNotSwept ==
    /\ lastOp.op = "get"
    /\ ~lastOp.result.hit
    /\ HasKey(memoryCache, lastOp.key)
    /\ LET got == GetMemoryCache(memoryCache, lastOp.key) IN
          got.entry.ttl = 1 /\ now - got.entry.timestamp >= 1

----------------------------------------------------------------------------
(* The cache: the auto strategy *)

\* a value that has a JSON text, which reads back as the value itself
HasJsonText(value) == "k" \in DOMAIN value

\* C12: after set(k, v) under auto, a get(k) under auto issued before the
\* entry's TTL elapses returns v, whichever tier the size rule chose and
\* whatever the three tiers held for k before the set.
ReadYourWriteUnderAuto ==
    [][ ( /\ lastOp.op = "cacheSet"
          /\ lastOp.strategy = "auto"
          /\ lastOp.quotaOk
          /\ ~lastOp.threw
          /\ HasJsonText(lastOp.value)
          /\ lastOp'.op = "cacheGet"
          /\ lastOp'.strategy = "auto"
          /\ lastOp'.key = lastOp.key )
        => (lastOp'.result.hit /\ lastOp'.result.value = lastOp.value)
      ]_vars

\* an entry that is there and has not expired
ValidAt(found, t) == found.found /\ t - found.entry.timestamp < found.entry.ttl

\* C13: get(k, 'auto') returns the value of the first of memory, session and
\* durable that holds a valid entry for k; a missing or expired entry in an
\* earlier tier does not hide a valid one in a later tier, and absent is
\* returned only when no tier holds a valid entry.
AutoGetReturnsFirstValid ==
    [][ (lastOp'.op = "cacheGet" /\ lastOp'.strategy = "auto") =>
          LET inMemory == GetMemoryCache(memoryCache, lastOp'.key)
              inSession == GetStorageCache(sessionStorage, lastOp'.key)
              inLocal == GetStorageCache(localStorage, lastOp'.key)
              first == IF ValidAt(inMemory, now) THEN inMemory
                       ELSE IF ValidAt(inSession, now) THEN inSession
                       ELSE inLocal
          IN  IF ValidAt(first, now)
              THEN /\ lastOp'.result.hit
                   /\ lastOp'.result.value = Deserialize(first.entry.value)
              ELSE ~lastOp'.result.hit
      ]_vars

\* the tier the size rule names for a serialized length
TierForLength(length) ==
    IF length < AutoMemoryLimit THEN "memory"
    ELSE IF length < AutoSessionLimit THEN "sessionStorage"
    ELSE "localStorage"

\* the tier holds, for the key, the entry the last set built
HoldsNewEntry(found, op, t) ==
    /\ found.found
    /\ found.entry.timestamp = t
    /\ found.entry.value = Serialize(op.value)

\* C14: set under auto stores the entry in exactly one tier, chosen by the
\* serialized length L of the value alone: memory when L < 1024, session
\* when 1024 <= L < 10240, durable when L >= 10240.
AutoTierBySerializedLength ==
    [][ ( /\ lastOp'.op = "cacheSet"
          /\ lastOp'.strategy = "auto"
          /\ lastOp'.quotaOk
          /\ HasJsonText(lastOp'.value) ) =>
          LET tier == TierForLength(SerializedLength(Serialize(lastOp'.value))) IN
          /\ ~lastOp'.threw
          /\ IF tier = "memory"
             THEN /\ HoldsNewEntry(GetMemoryCache(memoryCache', lastOp'.key), lastOp', now)
                  /\ UNCHANGED <<sessionStorage, localStorage>>
             ELSE IF tier = "sessionStorage"
             THEN /\ HoldsNewEntry(GetStorageCache(sessionStorage', lastOp'.key), lastOp', now)
                  /\ UNCHANGED <<memoryCache, localStorage>>
             ELSE /\ HoldsNewEntry(GetStorageCache(localStorage', lastOp'.key), lastOp', now)
                  /\ UNCHANGED <<memoryCache, sessionStorage>>
      ]_vars

\* C15: no set and no get throws, for any key, value and strategy; when the
\* backing storage rejects the write, set returns normally and leaves every
\* tier as it was.
SetAndGetNeverThrow ==
    [][ lastOp'.op = "cacheSet" =>
          /\ ~lastOp'.threw
          /\ ( /\ ~lastOp'.quotaOk
               /\ \/ lastOp'.strategy \in {"sessionStorage", "localStorage"}
                  \/ /\ lastOp'.strategy = "auto"
                     /\ HasJsonText(lastOp'.value)
                     /\ SerializedLength(Serialize(lastOp'.value)) >= AutoSessionLimit )
             => UNCHANGED <<memoryCache, sessionStorage, localStorage>>
      ]_vars

----------------------------------------------------------------------------
(* validateData: the order of the checks *)

\* the message is a field-level error of the field: `${field} ...`
IsErrorOf(field, message) ==
    Len(message) > Len(field) /\ SubSeq(message, 1, Len(field) + 1) = field \o " "

\* the position in the schema of the field a message is about, 0 for the
\* message of a business rule
SchemaPosition(schema, message) ==
    IF \E i \in 1..Len(schema) : IsErrorOf(schema[i].field, message)
    THEN CHOOSE i \in 1..Len(schema) : IsErrorOf(schema[i].field, message)
    ELSE 0

\* C16: validateData reports at most one field-level error per field (a field
\* that fails one check is not checked further), the field-level errors are
\* in schema field order, and the business-rule errors come after all of
\* them.
OneErrorPerFieldInOrder ==
    (lastOp.op = "validate" /\ lastOp.store \in StoreNames) =>
        LET schema == Schema(lastOp.store)
            errors == lastOp.result.errors
        IN  \A j, k \in 1..Len(errors) :
                (j < k /\ SchemaPosition(schema, errors[k]) # 0) =>
                    /\ SchemaPosition(schema, errors[j]) # 0
                    /\ SchemaPosition(schema, errors[j]) < SchemaPosition(schema, errors[k])

----------------------------------------------------------------------------
(* queryData *)

\* C17: queryData returns the records that satisfy the filter, ordered by the
\* sort keys in declaration order (stable), and of that sequence exactly the
\* slice [offset, offset + limit), offset defaulting to 0 and limit to the
\* remaining length; for every limit given, 0 included, the result has at
\* most limit records.
QueryReturnsTheSlice ==
    (lastOp.op = "query" /\ lastOp.ok) =>
        LET data == stores[lastOp.store]
            filtered == IF lastOp.filterId = Undef THEN data
                        ELSE SelectSeq(data, LAMBDA r : r["id"] = lastOp.filterId)
            sorted == SortBy(filtered, lastOp.sort, Len(filtered))
            offset == IF lastOp.offset = Undef THEN 0 ELSE lastOp.offset.n
            first == IF offset > Len(sorted) THEN Len(sorted) ELSE offset
            limit == IF lastOp.limit = Undef THEN Len(sorted) - first ELSE lastOp.limit.n
            last == IF first + limit > Len(sorted) THEN Len(sorted) ELSE first + limit
        IN  /\ lastOp.result = SubSeq(sorted, first + 1, last)
            /\ lastOp.limit # Undef => Len(lastOp.result) <= lastOp.limit.n

----------------------------------------------------------------------------
(* saveAllData and loadAllData *)

\* what saveAllData would write is what localStorage holds
SavedIsCurrent == SaveAllData(stores, localStorage, {}, 1) = localStorage

\* C18: saveAllData, then emptying the in-memory records, then loadAllData
\* restores in every store a record list equal to the saved one, in order
\* and in every field, createdAt and updatedAt included.
RoundTripRestoresRecords ==
    [][(lastOp'.op = "pageLoad" /\ SavedIsCurrent) => stores' = stores]_vars

\* the durable entry of a store, when it deserializes to a sequence
SavedSequence(storeName) ==
    LET saved == GetItem(localStorage, DataItemKey(storeName)) IN
    IF saved.found /\ Parsable(saved.item) /\ "k" \in DOMAIN JsonParse(saved.item)
    THEN IF JsonParse(saved.item).k = "array"
         THEN [found |-> TRUE, list |-> JsonParse(saved.item).list]
         ELSE [found |-> FALSE]
    ELSE [found |-> FALSE]

\* C19: after loadAllData at startup every store's records are a sequence:
\* the durable entry when it deserializes to a sequence, and the empty
\* sequence when the entry is missing, unparsable or parses to an object, a
\* number or a string.
LoadLeavesSequences ==
    lastOp.op = "pageLoad" =>
        \A s \in StoreNames :
            /\ IsArray(stores[s])
            /\ stores[s] = IF SavedSequence(s).found THEN SavedSequence(s).list ELSE <<>>

----------------------------------------------------------------------------
(* login rate limiting *)

\* the failed attempts of the sequence that lie in the last 15 minutes
RECURSIVE FailedWithin(_, _, _)
FailedWithin(times, t, i) ==
    IF i > Len(times) THEN 0
    ELSE (IF t - times[i] <= LOCKOUT_DURATION THEN 1 ELSE 0) + FailedWithin(times, t, i + 1)

\* C20: checkLoginRateLimit(email) returns true exactly when fewer than 5
\* failed attempts were logged for the email in the last 15 minutes (and
\* since the last resetLoginRateLimit(email)): false once 5 were logged
\* within 15 minutes, true again when 15 minutes have passed since them,
\* true right after a reset.
AtMostFiveFailuresPerWindow ==
    lastOp.op = "checkLoginRateLimit" =>
        (lastOp.result <=> FailedWithin(failedAt[lastOp.email], now, 1) < MAX_ATTEMPTS)

----------------------------------------------------------------------------
(* CacheManager.get and the stored entry *)

\* C21: a get that hits a valid entry increments accessCount and sets
\* lastAccess to now on the entry as stored in its tier, in the memory, the
\* session and the durable tier alike.
HitTouchesStoredEntry ==
    [][(lastOp'.op = "cacheGet" /\ lastOp'.result.hit) =>
          LET before == LookedUp(Tiers(memoryCache, sessionStorage, localStorage),
                                 lastOp'.key, lastOp'.strategy)
              after == LookedUp(Tiers(memoryCache', sessionStorage', localStorage'),
                                lastOp'.key, lastOp'.strategy)
          IN  /\ after.found
              /\ after.entry.lastAccess = now
              /\ after.entry.accessCount = before.entry.accessCount + 1]_vars

----------------------------------------------------------------------------
(* capacity of the storage tiers *)

StorageWithinCapacity ==
    /\ Len(CacheItems(sessionStorage)) <= SessionMaxSize
    /\ Len(CacheItems(localStorage)) <= LocalMaxSize

\* C22: a set that finds the session or the durable tier at capacity evicts
\* before it inserts, so a set never takes the number of cache_ entries of
\* a tier above its capacity, also when a stored entry is malformed.
SetKeepsStorageWithinCapacity ==
    [][(lastOp'.op = "cacheSet" /\ StorageWithinCapacity) => StorageWithinCapacity']_vars

----------------------------------------------------------------------------
(* cleanup *)

\* a storage without the cache_ entries whose ttl has elapsed at time t
SweptStorage(storage, t) ==
    SelectSeq(storage,
              LAMBDA e : ~(IsCacheItemKey(e.key) /\ Parsable(e.item) /\ ~IsValid(e.item.json, t)))

\* C23: one run of cleanup() removes from the memory, the session and the
\* durable tier every entry with now - timestamp >= ttl, whatever else the
\* tier contains (an unparsable item included), and keeps every other entry.
CleanupSweepsEveryTier ==
    [][lastOp'.op = "cleanup" =>
          /\ memoryCache' = SelectSeq(memoryCache, LAMBDA e : IsValid(e.entry, now))
          /\ sessionStorage' = SweptStorage(sessionStorage, now)
          /\ localStorage' = SweptStorage(localStorage, now)]_vars

----------------------------------------------------------------------------
(* set of a value that cannot be serialized *)

\* C24: when serializing the value fails during set, nothing is cached: a
\* get of the key, under every strategy, returns after the call what it
\* returned before the call.
FailedSerializationCachesNothing ==
    [][(lastOp'.op = "cacheSet" /\ lastOp'.value = Circular) =>
          \A strategy \in Strategies :
              CacheGet(Tiers(memoryCache', sessionStorage', localStorage'),
                       lastOp'.key, strategy, now)
                = CacheGet(Tiers(memoryCache, sessionStorage, localStorage),
                           lastOp'.key, strategy, now)]_vars

----------------------------------------------------------------------------
(* the key namespaces of localStorage *)

\* key.startsWith('data-')
IsSnapshotKey(key) == Len(key) >= 5 /\ SubSeq(key, 1, 5) = "data-"

Snapshots(storage) == SelectSeq(storage, LAMBDA e : IsSnapshotKey(e.key))
NotSnapshots(storage) == SelectSeq(storage, LAMBDA e : ~IsSnapshotKey(e.key))

\* C25: CacheManager set, eviction, cleanup and clear leave the
\* data-<storeName> snapshots as they are; saveAllData writes the four
\* snapshot keys and leaves every other key as it is; loadAllData changes
\* no key and what it loads depends on the snapshots alone.
CacheAndSnapshotsKeepApart ==
    [][/\ lastOp'.op \in {"cacheSet", "cleanup", "clear"} =>
             /\ Snapshots(localStorage') = Snapshots(localStorage)
             /\ Snapshots(sessionStorage') = Snapshots(sessionStorage)
       /\ lastOp'.op = "saveAll" =>
             /\ NotSnapshots(localStorage') = NotSnapshots(localStorage)
             /\ sessionStorage' = sessionStorage
             /\ \A i \in 1..Len(localStorage') :
                   IsSnapshotKey(localStorage'[i].key) =>
                       \E s \in StoreNames : localStorage'[i].key = DataItemKey(s)
       /\ lastOp'.op = "pageLoad" =>
             /\ localStorage' = localStorage
             /\ sessionStorage' = sessionStorage
             /\ stores' = LoadAllData([s \in StoreNames |-> <<>>], Snapshots(localStorage))]_vars

\* the cache was cleared while it held entries next to the snapshot of a
\* store that has a record
ClearedNextToSnapshot ==
    /\ lastOp.op = "clear"
    /\ Len(stores["sales"]) = 1
    /\ GetItem(localStorage, DataItemKey("sales")).found
    /\ GetItem(localStorage, DataItemKey("sales")).item = StringifyData(stores["sales"])
    /\ now = 1

----------------------------------------------------------------------------
(* syncWithFirebase and local mutations *)

\* the record is one of the list
InList(list, record) == \E i \in 1..Len(list) : list[i] = record

\* the list has a record with the id of this record
IdInList(list, record) == \E i \in 1..Len(list) : list[i]["id"] = record["id"]

\* C26: a local addData/updateData/deleteData that completed while
\* syncWithFirebase was waiting for the snapshot of the store is not lost
\* when the snapshot arrives: the records added or changed meanwhile are
\* still in the store's list, and the ids deleted meanwhile are still absent.
LocalMutationSurvivesSync ==
    [][lastOp'.op = "syncReceive" =>
          LET local == stores[lastOp'.store]
              synced == stores'[lastOp'.store]
          IN  /\ \A i \in 1..Len(local) :
                    ~InList(sync.issued, local[i]) => InList(synced, local[i])
              /\ \A j \in 1..Len(sync.issued) :
                    ~IdInList(local, sync.issued[j]) => ~IdInList(synced, sync.issued[j])]_vars

----------------------------------------------------------------------------
(* the cached record list and the store *)

\* C27: whenever the memory tier holds an unexpired entry under
\* '<storeName>-data', its value is the store's current record list (record
\* for record, as the cache's JSON copy renders it), after any sequence of
\* addData, updateData, deleteData, loadAllData and syncWithFirebase.
CachedListIsCurrent ==
    \A s \in StoreNames :
        LET got == GetMemoryResult(memoryCache, CacheKeyOf(s), now)
            data == stores[s]
        IN  got.hit =>
                /\ Len(got.value.list) = Len(data)
                /\ \A i \in 1..Len(data) : got.value.list[i] = AsCached(data[i])

----------------------------------------------------------------------------
(* the periodic timers at teardown *)

\* C28: the periodic timers are cancelled at teardown, so no cleanup tick
\* and no auto-save tick fires after teardown.
NoTickAfterTeardown ==
    [][timers.unloading =>
          /\ lastOp'.op \notin {"cleanup", "saveAll"}
          /\ ~timers.cleanupInterval
          /\ ~timers.autoSaveInterval]_vars

----------------------------------------------------------------------------
(* validation of reloaded records *)

\* C29: the records loadAllData restores still pass validateData for their
\* store, and an updateData on a stored record with a patch that is valid on
\* its own succeeds, after a reload as before it.
ReloadedRecordsStayValid ==
    [][/\ lastOp'.op = "pageLoad" =>
             \A s \in StoreNames : \A i \in 1..Len(stores'[s]) :
                 ValidateData(s, stores'[s][i]).valid
       /\ ( /\ lastOp'.op = "update"
            /\ lastOp'.store \in StoreNames
            /\ HasId(stores[lastOp'.store], lastOp'.id) ) => lastOp'.ok]_vars

----------------------------------------------------------------------------
(* the ttl of a new entry *)

\* the ttl an entry must carry in a tier whose default is given
TtlFor(op, default) == IF op.ttl > 0 THEN op.ttl ELSE default

\* C30: an entry set without a ttl (or with ttl 0) carries the default TTL
\* of the tier it is stored in (memory 5 minutes, session 30 minutes,
\* durable 1 hour), also when auto chose the tier; an entry set with a
\* positive ttl carries that ttl.
EntryCarriesTtlOfItsTier ==
    [][(lastOp'.op = "cacheSet" /\ ~lastOp'.threw) =>
          /\ memoryCache' # memoryCache =>
                GetMemoryCache(memoryCache', lastOp'.key).entry.ttl
                    = TtlFor(lastOp', MemoryTTL)
          /\ sessionStorage' # sessionStorage =>
                GetStorageCache(sessionStorage', lastOp'.key).entry.ttl
                    = TtlFor(lastOp', SessionStorageTTL)
          /\ localStorage' # localStorage =>
                GetStorageCache(localStorage', lastOp'.key).entry.ttl
                    = TtlFor(lastOp', LocalStorageTTL)]_vars

====
